---- MODULE Spec2Model ----
(***************************************************************************)
(* State-machine model of the kipu-core invoicing backend: the synchronous *)
(* issuance route (POST /integrations/invoice), the enqueue route          *)
(* (POST /invoices/emit), the signer firmarYEnviarLote, the admin top-up   *)
(* and the two settlement jobs enviarFacturasAlSRI / autorizarFacturasSRI, *)
(* over the tables emisores, user_credits, puntos_emision, invoices,       *)
(* transaction_logs and the object store.                                  *)
(*                                                                         *)
(* Conventions.  An invoice id is its index in the sequence invoices       *)
(* (insertion order = created_at order).  Every issuer owns one            *)
(* establishment 001 with one emission point 100 (routes/auth.js:139-151), *)
(* so an emission point is named by its issuer.  An access key is modelled *)
(* by the pair <<issuer, secuencial>> it is built from; an object of       *)
(* bucket invoices is <<directory, issuer, secuencial, extension>>.        *)
(***************************************************************************)
EXTENDS Integers, Sequences, FiniteSets, Bags, TLC

\* ---------------------------------------------------------------- bounds
MaxInvoices    == 2    \* rows the invoices table may hold
MaxInitBalance == 2    \* largest ledger balance drawn in Init
MaxBalance     == 3    \* top-ups stop once the balance would exceed this
MaxLogs        == 1    \* transaction_logs entries
MaxFilas       == 1    \* invoices already issued when the settlement jobs start
MaxAvisos      == 2    \* POSTs of one <<invoice, estado>> event the webhook log keeps
MaxCorta       == 2    \* digit strings up to this length are drawn over all ten digits
MaxCadena      == 7    \* longer ones, up to this length, over DigitosMuestra
MaxItems       == 2    \* line items handed to calcularTotalesEImpuestos
MaxLlaves      == 2    \* rows of api_keys
MaxRecargas    == 2    \* top-ups that POST /admin/topup commits
MaxSubidas     == 2    \* uploads of a credential that reach the object store
MaxBolsas      == 3    \* bags of one type in a PKCS#12 container

\* ------------------------------------------------------- program constants
LIMIT == 15            \* batch size of both settlement queries

Emisores == {"e1", "e2"}      \* issuer ids (emisores.id)
Reqs     == {"r1", "r2"}      \* concurrent POST /integrations/invoice requests
Runs     == {"w1", "w2"}      \* concurrent executions of one settlement job
Montos   == {-1, 1}           \* amount values sent to POST /admin/topup
Codigos  == {"100", "999"}    \* punto_emision codes a request may name
\* ids of puntos_emision rows: the point 001/100 that activar-ruc creates for
\* an issuer carries the issuer's name; p3 is a point added afterwards
PuntoIds == Emisores \cup {"p3"}
Acts     == {"a1", "a2"}      \* concurrent POST /auth/activar-ruc requests
Uids     == {"u1", "u2"}      \* users the identity provider knows
CORTESIA == 50                \* balance of a new ledger

ESTADOS == {"PENDIENTE", "FIRMADO", "RECIBIDA", "DEVUELTA", "AUTORIZADO", "RECHAZADO"}

\* what the reception endpoint may answer in RespuestaRecepcionComprobante.estado
RespRecepcion == {"RECIBIDA", "DEVUELTA"}
\* what the authorization endpoint may answer in autorizacion.estado
RespAutorizacion == {"AUTORIZADO", "NO AUTORIZADO", "EN PROCESO"}

NULL == <<>>

\* A string is a sequence of characters; the character of a decimal digit is
\* that digit.  The RUC each issuer id registered with:
RUC  == <<1, 7, 9, 0, 0, 1, 2, 3, 4, 5, 0, 0, 1>>
RUC2 == <<0, 9, 9, 0, 0, 0, 0, 0, 0, 1, 0, 0, 1>>
RucDe == [e \in Emisores |-> IF e = "e1" THEN RUC ELSE RUC2]
\* and the user whose profile is linked to it
UidDe == [e \in Emisores |-> IF e = "e1" THEN "u1" ELSE "u2"]

VARIABLES
    emisores,          \* registered issuers (rows of emisores with a profile)
    balance,           \* user_credits.balance per issuer
    p12,               \* credential of the issuer: "none" (p12_path NULL),
                       \* "valid", or "expired" (p12_expiration < now)
    credLock,          \* holder of the row lock on emisores/user_credits
    secuencial_actual, \* puntos_emision.secuencial_actual (committed value)
    ptoLock,           \* holder of the row lock on the puntos_emision row
    invoices,          \* the invoices table
    objects,           \* objects of bucket invoices
    transaction_logs,  \* the transaction_logs table
    inv,               \* POST /integrations/invoice requests in progress
    firma,             \* the firmarYEnviarLote call in progress
    envio,             \* executions of enviarFacturasAlSRI
    autz,              \* executions of autorizarFacturasSRI
    debitos,           \* per invoice id: balance - 1 statements executed for it
    webhooks,          \* bag of the <<invoice id, estado>> events POSTed to the webhook
    webhookUrl,        \* process.env.WEB_HOOK_NOTIFICACIONES is set
    saldo_inicial,     \* the balance each issuer started with (never written)
    llamada,           \* the call under examination (a pure function, or a
                       \* request handled in one step): its name, its
                       \* arguments and what it returned or answered
    api_keys,          \* the api_keys table, in insertion order
    emisores_ruc,      \* emisores.ruc per issuer id (NULL: no such row)
    establecimientos,  \* rows <<emisor_id, codigo>> of establecimientos
    puntos_emision,    \* rows <<emisor_id, establishment codigo, codigo>> of
                       \* puntos_emision (the counter is secuencial_actual)
    user_credits,      \* issuers that have a row in user_credits
    profiles,          \* profiles.emisor_id per user ("none": no row, or NULL)
    act,               \* POST /auth/activar-ruc requests in progress
    p12_path,          \* emisores.p12_path (with p12_pass, written together):
                       \* the object of bucket certificates it names, or NULL
    certificates,      \* objects <<ruc, time of upload>> of bucket certificates
    emisores_ambiente  \* emisores.ambiente as the driver hands it to the code:
                       \* a JavaScript number or a string, by the column's type

vars == <<emisores, balance, p12, credLock, secuencial_actual, ptoLock, invoices,
          objects, transaction_logs, inv, firma, envio, autz, debitos, webhooks,
          webhookUrl, saldo_inicial, llamada, api_keys, emisores_ruc, establecimientos,
          puntos_emision, user_credits, profiles, act, p12_path, certificates,
          emisores_ambiente>>

\* the tables of account administration, which issuance and settlement only read
admin == <<api_keys, emisores_ruc, establecimientos, puntos_emision, user_credits,
           profiles, act, p12_path, certificates,
           emisores_ambiente>>

Ids == 1..Len(invoices)

\* ------------------------------------------------------------- helpers
Obj(dir, e, sec, ext) == <<dir, e, sec, ext>>
Path(dir, e, sec)     == <<dir, e, sec>>
PathObj(path, ext)    == <<path[1], path[2], path[3], ext>>

InvIdle   == [pc |-> "idle", e |-> "e1", sec |-> 0, pto |-> "e1", cod |-> "100",
              balanceRestante |-> 0]
FirmaIdle == [pc |-> "idle", id |-> 0, sec |-> 0, archivosSubidos |-> {}]
JobIdle   == [pc |-> "idle", rows |-> <<>>, resp |-> "none", url |-> "none"]

\* JavaScript values of the two types a column value can arrive in; === holds
\* between two of them when type and value are the same
JsNumber(n) == [tipo |-> "number", v |-> n]
JsString(n) == [tipo |-> "string", v |-> n]          \* the decimal digits of n

ActIdle   == [pc |-> "idle", uid |-> "u1", ruc |-> NULL, status |-> "none"]

\* fase: "none" (no call), "call" (arguments bound), "return", "throw"
SinLlamada == [fn |-> "none", args |-> <<>>, fase |-> "none", ret |-> <<>>]

\* a column of the rows of the registered issuers: v in each of them (d stands
\* for the rows that do not exist)
DeRegistrados(v, d) == [e \in Emisores |-> IF e \in emisores THEN v ELSE d]

\* locks free, no request or job in progress, nothing logged, no API key
\* issued; each issuer registered has the rows activar-ruc creates
Reposo ==
    /\ credLock = [e \in Emisores |-> "free"]
    /\ ptoLock = [p \in PuntoIds |-> "free"]
    /\ transaction_logs = <<>>
    /\ inv = [r \in Reqs |-> InvIdle]
    /\ firma = FirmaIdle
    /\ envio = [w \in Runs |-> JobIdle]
    /\ autz = [w \in Runs |-> JobIdle]
    /\ debitos = [i \in 1..MaxInvoices |-> 0]
    /\ webhooks = EmptyBag
    /\ saldo_inicial = balance
    /\ api_keys = <<>>
    /\ emisores_ruc = [e \in Emisores |-> IF e \in emisores THEN RucDe[e] ELSE NULL]
    /\ establecimientos = {<<e, "001">> : e \in emisores}
    /\ puntos_emision = {<<e, "001", "100", e>> : e \in emisores}
    /\ user_credits = emisores
    /\ profiles = [u \in Uids |-> IF \E e \in emisores : UidDe[e] = u
                                   THEN CHOOSE e \in emisores : UidDe[e] = u ELSE "none"]
    /\ act = [a \in Acts |-> ActIdle]
    /\ p12_path = [e \in Emisores |-> IF p12[e] = "none" THEN NULL ELSE <<RucDe[e], 0>>]
    /\ certificates = {<<RucDe[e], 0>> : e \in {o \in Emisores : p12[o] # "none"}}

\* ... with every issuer in the test environment, held as text
Quiescent ==
    /\ Reposo
    /\ emisores_ambiente = [e \in Emisores |-> JsString(1)]

\* A registered issuer (activar-ruc: establishment 001, point 100, counter 0)
\* that has not issued yet; its ledger balance and its credential are whatever
\* top-ups and P12 uploads have left (the courtesy seed of 50 is not kept).
Init ==
    /\ emisores = {"e1"}
    /\ balance \in {DeRegistrados(b, 0) : b \in 0..MaxInitBalance}
    /\ p12 \in {DeRegistrados(c, "none") : c \in {"none", "valid", "expired"}}
    /\ secuencial_actual = [e \in Emisores |-> 0]
    /\ invoices = <<>>
    /\ objects = {}
    /\ webhookUrl = FALSE
    /\ Quiescent
    /\ llamada = SinLlamada

\* ------------------------------------------------ database function
\* generar_secuencial(punto_id): UPDATE puntos_emision SET secuencial_actual =
\* secuencial_actual + 1 ... RETURNING secuencial_actual.  The UPDATE takes the
\* row lock (ptoLock) until the calling transaction ends; the value returned
\* becomes the committed secuencial_actual only at COMMIT.
generar_secuencial(e) == secuencial_actual[e] + 1

\* ------------------------------------------------ POST /integrations/invoice
\* catch: ROLLBACK, 500; finally: client.release().  The rollback frees both
\* row locks and undoes the sequential advance (which is only held in inv[r]).
InvRollback(r) ==
    /\ credLock' = [credLock EXCEPT ![inv[r].e] = "free"]
    /\ ptoLock' = [ptoLock EXCEPT ![inv[r].pto] = IF @ = r THEN "free" ELSE @]
    /\ inv' = [inv EXCEPT ![r] = InvIdle]

\* res.status(status).json(...) of the route: the last response it sent, with
\* the issuer it was sent to; cuerpo is <<creditos_restantes>> on a 201
res_status(e, status, cuerpo) ==
    llamada' = [fn |-> "POST /integrations/invoice", args |-> <<e>>,
                fase |-> "return", ret |-> <<status>> \o cuerpo]

\* BEGIN; SELECT e.*, c.balance ... FOR UPDATE; the 402 exit returns without
\* COMMIT or ROLLBACK, so the connection goes back to the pool with its
\* transaction open and the row lock still held ("leaked").
InvoiceBegin(r, e) ==
    /\ inv[r].pc = "idle"
    /\ e \in emisores
    /\ credLock[e] = "free"
    /\ IF balance[e] <= 0
         THEN /\ credLock' = [credLock EXCEPT ![e] = "leaked"]
              /\ res_status(e, "402", <<>>)
              /\ UNCHANGED inv
         ELSE /\ credLock' = [credLock EXCEPT ![e] = r]
              /\ inv' = [inv EXCEPT ![r] = [InvIdle EXCEPT !.pc = "tx", !.e = e,
                                                           !.balanceRestante = balance[e] - 1]]
              /\ UNCHANGED llamada
    /\ UNCHANGED <<admin, webhookUrl, saldo_inicial, emisores, balance, p12, secuencial_actual, ptoLock, invoices, objects,
                   transaction_logs, firma, envio, autz, debitos, webhooks>>

\* The pooled connection that was released inside a transaction is closed by
\* the pool's idle timeout (idleTimeoutMillis), which aborts the transaction.
LeakedTxEnds(e) ==
    /\ credLock[e] = "leaked"
    /\ credLock' = [credLock EXCEPT ![e] = "free"]
    /\ UNCHANGED <<admin, llamada, webhookUrl, saldo_inicial, emisores, balance, p12, secuencial_actual, ptoLock, invoices, objects,
                   transaction_logs, inv, firma, envio, autz, debitos, webhooks>>

\* Variant of ptoRes without the condition on emisor_id: the rows of every
\* issuer with those codes.
ptoResSinEmisor(emisorId, establecimiento, punto_emision) ==
    {p \in puntos_emision : p[2] = establecimiento /\ p[3] = punto_emision}

\* SELECT ... FROM puntos_emision p JOIN establecimientos e ... WHERE e.codigo =
\* $1 AND p.codigo = $2 AND e.emisor_id = $3: the rows <<emisor, establecimiento,
\* codigo, id>> found; the handlers take rows[0].
ptoRes(emisorId, establecimiento, punto_emision) ==
    {p \in puntos_emision : p[1] = emisorId /\ p[2] = establecimiento /\ p[3] = punto_emision}

\* Steps 2-7: resolve the emission point among the caller's own, advance the
\* sequential, build the key and the XML, download the P12 and sign.  No test
\* of p12_expiration is made; a NULL p12_path makes p12_path.split throw.
InvoiceAlloc(r, punto) ==
    /\ inv[r].pc = "tx"
    /\ \/ /\ ptoRes(inv[r].e, "001", punto) = {}       \* thrown: ROLLBACK, 500
          /\ credLock' = [credLock EXCEPT ![inv[r].e] = "free"]
          /\ inv' = [inv EXCEPT ![r] = [InvIdle EXCEPT !.e = inv[r].e, !.cod = punto,
                                                       !.pto = "none"]]
          /\ res_status(inv[r].e, "500", <<>>)
          /\ UNCHANGED ptoLock
       \/ \E puntoEmision \in ptoRes(inv[r].e, "001", punto) :
          /\ ptoLock[puntoEmision[4]] = "free"
          /\ \/ /\ p12[inv[r].e] # "none"
                /\ ptoLock' = [ptoLock EXCEPT ![puntoEmision[4]] = r]
                /\ inv' = [inv EXCEPT ![r].pc = "xml",
                                      ![r].pto = puntoEmision[4],
                                      ![r].cod = punto,
                                      ![r].sec = generar_secuencial(puntoEmision[4])]
                /\ UNCHANGED <<credLock, llamada>>
             \/ /\ InvRollback(r)   \* p12_path NULL, or download/sign/render throws
                /\ res_status(inv[r].e, "500", <<>>)
    /\ UNCHANGED <<admin, webhookUrl, saldo_inicial, emisores, balance, p12, secuencial_actual, invoices, objects,
                   transaction_logs, firma, envio, autz, debitos, webhooks>>

\* Step 8a: uploadFile('invoices', `${ruc}/${clave}.xml`).
InvoiceUploadXml(r) ==
    /\ inv[r].pc = "xml"
    /\ \/ /\ objects' = objects \cup {Obj("raiz", inv[r].e, inv[r].sec, "xml")}
          /\ inv' = [inv EXCEPT ![r].pc = "pdf"]
          /\ UNCHANGED <<credLock, ptoLock, llamada>>
       \/ /\ InvRollback(r)
          /\ res_status(inv[r].e, "500", <<>>)
          /\ UNCHANGED objects
    /\ UNCHANGED <<admin, webhookUrl, saldo_inicial, emisores, balance, p12, secuencial_actual, invoices,
                   transaction_logs, firma, envio, autz, debitos, webhooks>>

\* Step 8b: minioClient.putObject('invoices', `${ruc}/${clave}.pdf`).  The
\* catch block deletes nothing.
InvoiceUploadPdf(r) ==
    /\ inv[r].pc = "pdf"
    /\ \/ /\ objects' = objects \cup {Obj("raiz", inv[r].e, inv[r].sec, "pdf")}
          /\ inv' = [inv EXCEPT ![r].pc = "ins"]
          /\ UNCHANGED <<credLock, ptoLock, llamada>>
       \/ /\ InvRollback(r)
          /\ res_status(inv[r].e, "500", <<>>)
          /\ UNCHANGED objects
    /\ UNCHANGED <<admin, webhookUrl, saldo_inicial, emisores, balance, p12, secuencial_actual, invoices,
                   transaction_logs, firma, envio, autz, debitos, webhooks>>

FilaFirmada(e, sec, dir, input) ==
    [emisor |-> e, punto_emision_id |-> e, estado |-> "FIRMADO", secuencial |-> sec,
     clave_acceso |-> <<e, sec>>,
     xml_path |-> Path(dir, e, sec), pdf_path |-> Path(dir, e, sec),
     client_input_data |-> input, input_json |-> NULL, mensajes_sri |-> "null",
     fecha_envio_sri |-> FALSE, fecha_autorizacion |-> FALSE]

\* Variant of InvoiceCommit whose INSERT runs on the pool instead of the
\* transaction's client: the row survives a failed COMMIT.
InvoiceCommitPool(r) ==
    /\ inv[r].pc = "ins"
    /\ Len(invoices) < MaxInvoices
    /\ invoices' = Append(invoices, [FilaFirmada(inv[r].e, inv[r].sec, "raiz", FALSE)
                                          EXCEPT !.punto_emision_id = inv[r].pto])
    /\ \/ /\ secuencial_actual' = [secuencial_actual EXCEPT ![inv[r].pto] = inv[r].sec]
          /\ res_status(inv[r].e, "201", <<inv[r].balanceRestante>>)
       \/ /\ UNCHANGED secuencial_actual
          /\ res_status(inv[r].e, "500", <<>>)
    /\ InvRollback(r)
    /\ UNCHANGED <<admin, webhookUrl, saldo_inicial, emisores, balance, p12, objects,
                   transaction_logs, firma, envio, autz, debitos, webhooks>>

\* Variant of InvoiceCommit whose catch block ends the transaction with COMMIT
\* instead of ROLLBACK: the advance of the sequential outlives the failure.
InvoiceCommitSinRollback(r) ==
    /\ inv[r].pc = "ins"
    /\ \/ /\ Len(invoices) < MaxInvoices
          /\ invoices' = Append(invoices, [FilaFirmada(inv[r].e, inv[r].sec, "raiz", FALSE)
                                          EXCEPT !.punto_emision_id = inv[r].pto])
          /\ res_status(inv[r].e, "201", <<inv[r].balanceRestante>>)
       \/ /\ res_status(inv[r].e, "500", <<>>)
          /\ UNCHANGED invoices
    /\ secuencial_actual' = [secuencial_actual EXCEPT ![inv[r].pto] = inv[r].sec]
    /\ InvRollback(r)
    /\ UNCHANGED <<admin, webhookUrl, saldo_inicial, emisores, balance, p12, objects,
                   transaction_logs, firma, envio, autz, debitos, webhooks>>

\* Step 9 and COMMIT: INSERT INTO invoices (... 'FIRMADO' ...); COMMIT; 201 with
\* creditos_restantes.  No statement of the handler writes user_credits.
InvoiceCommit(r) ==
    /\ inv[r].pc = "ins"
    /\ \/ /\ Len(invoices) < MaxInvoices
          /\ invoices' = Append(invoices, [FilaFirmada(inv[r].e, inv[r].sec, "raiz", FALSE)
                                          EXCEPT !.punto_emision_id = inv[r].pto])
          /\ secuencial_actual' = [secuencial_actual EXCEPT ![inv[r].pto] = inv[r].sec]
          /\ InvRollback(r)          \* COMMIT frees the same locks; request ends
          /\ res_status(inv[r].e, "201", <<inv[r].balanceRestante>>)
       \/ /\ InvRollback(r)          \* INSERT or COMMIT throws
          /\ res_status(inv[r].e, "500", <<>>)
          /\ UNCHANGED <<invoices, secuencial_actual>>
    /\ UNCHANGED <<admin, webhookUrl, saldo_inicial, emisores, balance, p12, objects,
                   transaction_logs, firma, envio, autz, debitos, webhooks>>

\* ------------------------------------------------ POST /invoices/emit
\* Variant of FilaPendiente: the row is inserted as an issued one, with a
\* sequential and the access key built from it.
FilaPendienteConClave(e) == FilaFirmada(e, 1, "raiz", TRUE)

\* client_input_data says whether the column holds a request body; input_json
\* is the text in it when the whole handler EmitirFactura wrote the row.
FilaPendiente(e) ==
    [emisor |-> e, punto_emision_id |-> e, estado |-> "PENDIENTE", secuencial |-> 0,
     clave_acceso |-> <<"PENDING">>,
     xml_path |-> NULL, pdf_path |-> NULL,
     client_input_data |-> TRUE, input_json |-> NULL, mensajes_sri |-> "null",
     fecha_envio_sri |-> FALSE, fecha_autorizacion |-> FALSE]

\* The request passes every check (p12_path set, balance > 0, p12_expiration not
\* passed, emission point found among the caller's) and inserts one PENDIENTE
\* row; a rejected request changes nothing.
Emit(e, punto) ==
    /\ e \in emisores
    /\ p12[e] = "valid"
    /\ balance[e] > 0
    /\ Len(invoices) < MaxInvoices
    /\ \E fila \in ptoRes(e, "001", punto) :
          invoices' = Append(invoices, [FilaPendiente(e) EXCEPT !.punto_emision_id = fila[4]])
    /\ UNCHANGED <<admin, llamada, webhookUrl, saldo_inicial, emisores, balance, p12, credLock, secuencial_actual, ptoLock, objects,
                   transaction_logs, inv, firma, envio, autz, debitos, webhooks>>

\* ------------------------------------------------ firmarYEnviarLote
\* catch: ROLLBACK, then deleteFile for every path of archivosSubidos, each
\* deletion's own failure being swallowed (so any subset may remain).
FirmarRollback ==
    /\ ptoLock' = [ptoLock EXCEPT ![invoices[firma.id].emisor] = "free"]
    /\ \E borrados \in SUBSET firma.archivosSubidos : objects' = objects \ borrados
    /\ firma' = FirmaIdle

\* A and B.1: decrypt, download the P12, BEGIN, generar_secuencial, key, XML,
\* certificate selection and signature, for a row enqueued in PENDIENTE.
FirmarBegin(i) ==
    /\ firma.pc = "idle"
    /\ i \in Ids
    /\ invoices[i].estado = "PENDIENTE"
    /\ p12[invoices[i].emisor] # "none"
    /\ ptoLock[invoices[i].emisor] = "free"
    /\ ptoLock' = [ptoLock EXCEPT ![invoices[i].emisor] = "firma"]
    /\ firma' = [pc |-> "xml", id |-> i, sec |-> generar_secuencial(invoices[i].emisor),
                 archivosSubidos |-> {}]
    /\ UNCHANGED <<admin, llamada, webhookUrl, saldo_inicial, emisores, balance, p12, credLock, secuencial_actual, invoices, objects,
                   transaction_logs, inv, envio, autz, debitos, webhooks>>

\* C: uploadFile('invoices', `signed/${ruc}/${clave}.xml`); archivosSubidos.push
FirmarUploadXml ==
    /\ firma.pc = "xml"
    /\ LET o == Obj("signed", invoices[firma.id].emisor, firma.sec, "xml") IN
       \/ /\ objects' = objects \cup {o}
          /\ firma' = [firma EXCEPT !.pc = "pdf", !.archivosSubidos = @ \cup {o}]
          /\ UNCHANGED ptoLock
       \/ FirmarRollback
    /\ UNCHANGED <<admin, llamada, webhookUrl, saldo_inicial, emisores, balance, p12, credLock, secuencial_actual, invoices,
                   transaction_logs, inv, envio, autz, debitos, webhooks>>

\* C: minioClient.putObject('invoices', `signed/${ruc}/${clave}.pdf`); push
FirmarUploadPdf ==
    /\ firma.pc = "pdf"
    /\ LET o == Obj("signed", invoices[firma.id].emisor, firma.sec, "pdf") IN
       \/ /\ objects' = objects \cup {o}
          /\ firma' = [firma EXCEPT !.pc = "upd", !.archivosSubidos = @ \cup {o}]
          /\ UNCHANGED ptoLock
       \/ FirmarRollback
    /\ UNCHANGED <<admin, llamada, webhookUrl, saldo_inicial, emisores, balance, p12, credLock, secuencial_actual, invoices,
                   transaction_logs, inv, envio, autz, debitos, webhooks>>

\* D: UPDATE invoices SET clave_acceso, estado = 'FIRMADO', xml_path, pdf_path
\* WHERE id = $4; COMMIT.  The secuencial column is not written.
FirmarCommit ==
    /\ firma.pc = "upd"
    /\ LET e == invoices[firma.id].emisor IN
       \/ /\ invoices' = [invoices EXCEPT ![firma.id].clave_acceso = <<e, firma.sec>>,
                                          ![firma.id].estado = "FIRMADO",
                                          ![firma.id].xml_path = Path("signed", e, firma.sec),
                                          ![firma.id].pdf_path = Path("signed", e, firma.sec)]
          /\ secuencial_actual' = [secuencial_actual EXCEPT ![e] = firma.sec]
          /\ ptoLock' = [ptoLock EXCEPT ![e] = "free"]
          /\ firma' = FirmaIdle
          /\ UNCHANGED objects
       \/ /\ FirmarRollback
          /\ UNCHANGED <<invoices, secuencial_actual>>
    /\ UNCHANGED <<admin, llamada, webhookUrl, saldo_inicial, emisores, balance, p12, credLock,
                   transaction_logs, inv, envio, autz, debitos, webhooks>>

\* ------------------------------------------------ POST /admin/topup
\* Variant of TopupTx that writes a balance computed by the handler (SET
\* balance = $1) from a balance read earlier, here the initial one, instead of
\* incrementing inside the statement.
TopupTxLeido(e, amount) ==
    /\ credLock[e] = "free"
    /\ balance' = [balance EXCEPT ![e] = saldo_inicial[e] + amount]
    /\ transaction_logs' = Append(transaction_logs, <<e, amount>>)

\* Variant of TopupTx without the INSERT INTO transaction_logs.
TopupTxSinLog(e, amount) ==
    /\ credLock[e] = "free"
    /\ balance' = [balance EXCEPT ![e] = @ + amount]
    /\ UNCHANGED transaction_logs

\* What the transaction commits: UPDATE user_credits SET balance = balance +
\* parseInt(amount) WHERE emisor_id (the UPDATE waits for the row lock); INSERT
\* INTO transaction_logs (target_emisor_id, amount, ...).  amount is an integer,
\* as the route documents it, so parseInt(amount) is amount.
TopupTx(e, amount) ==
    /\ credLock[e] = "free"
    /\ balance' = [balance EXCEPT ![e] = @ + amount]
    /\ transaction_logs' = Append(transaction_logs, <<e, amount>>)

\* A top-up of issuer e that is admitted and commits.
Topup(e, amount) ==
    /\ e \in emisores
    /\ Len(transaction_logs) < MaxLogs
    /\ balance[e] + amount <= MaxBalance
    /\ TopupTx(e, amount)
    /\ UNCHANGED <<admin, llamada, webhookUrl, saldo_inicial, emisores, p12, credLock, secuencial_actual, ptoLock, invoices, objects,
                   inv, firma, envio, autz, debitos, webhooks>>

\* ------------------------------------------------ notifierService
\* notificarCambioEstado: POST to the webhook; a failure is logged and ignored.
\* Without WEB_HOOK_NOTIFICACIONES the function returns before any POST.
notificarCambioEstado(id, estado) ==
    IF ~webhookUrl THEN UNCHANGED webhooks
    ELSE \/ /\ CopiesIn(<<id, estado>>, webhooks) < MaxAvisos
            /\ webhooks' = webhooks (+) SetToBag({<<id, estado>>})
         \/ UNCHANGED webhooks

\* ------------------------------------------------ settlement queries
IdSeq == [i \in 1..Len(invoices) |-> i]
Take(s, n) == SubSeq(s, 1, IF Len(s) < n THEN Len(s) ELSE n)

\* Variant of SelectEstado without the WHERE i.estado = ... condition.
SelectSinFiltro(estado) ==
    Take(SelectSeq(IdSeq, LAMBDA i : invoices[i].emisor \in emisores), LIMIT)

\* SELECT ... WHERE i.estado = $estado ORDER BY i.created_at ASC LIMIT 15
SelectEstado(estado) ==
    Take(SelectSeq(IdSeq, LAMBDA i : invoices[i].estado = estado
                                     /\ invoices[i].emisor \in emisores), LIMIT)

\* next element of the for loop; the run ends after the last row
JobNext(job) ==
    IF Len(job.rows) <= 1 THEN JobIdle
    ELSE [pc |-> "lote", rows |-> Tail(job.rows), resp |-> "none", url |-> "none"]

\* the WSDL addresses of the two environments
URLS_SRI ==
    [pruebas    |-> [recepcion    |-> "celcer.sri.gob.ec/RecepcionComprobantesOffline",
                     autorizacion |-> "celcer.sri.gob.ec/AutorizacionComprobantesOffline"],
     produccion |-> [recepcion    |-> "cel.sri.gob.ec/RecepcionComprobantesOffline",
                     autorizacion |-> "cel.sri.gob.ec/AutorizacionComprobantesOffline"]]

\* Variant of urls that compares with the number 2.
urlsNumero(factura_ambiente) ==
    IF factura_ambiente = JsNumber(2) THEN URLS_SRI.produccion ELSE URLS_SRI.pruebas

\* factura.ambiente === '2' ? URLS_SRI.produccion : URLS_SRI.pruebas, with the
\* e.ambiente the SELECT joined to the row (no statement of the program writes
\* the column, so it is the issuer's current one)
urls(factura_ambiente) ==
    IF factura_ambiente = JsString(2) THEN URLS_SRI.produccion ELSE URLS_SRI.pruebas

\* ------------------------------------------------ enviarFacturasAlSRI
EnvioSelect(w) ==
    /\ envio[w].pc = "idle"
    /\ SelectEstado("FIRMADO") # <<>>
    /\ envio' = [envio EXCEPT ![w] =
          [pc |-> "lote", resp |-> "none", url |-> "none",
           rows |-> [k \in 1..Len(SelectEstado("FIRMADO")) |->
                       [id |-> SelectEstado("FIRMADO")[k],
                        xml_path |-> invoices[SelectEstado("FIRMADO")[k]].xml_path]]]]
    /\ UNCHANGED <<admin, llamada, webhookUrl, saldo_inicial, emisores, balance, p12, credLock, secuencial_actual, ptoLock, invoices,
                   objects, transaction_logs, inv, firma, autz, debitos, webhooks>>

\* Variant of EnvioPost without the try/catch inside the loop: a throw of the
\* download lands in the catch of the function and the run ends.
EnvioPostCatchExterior(w) ==
    /\ envio[w].pc = "lote"
    /\ \/ envio' = [envio EXCEPT ![w] = JobIdle]
       \/ /\ PathObj(Head(envio[w].rows).xml_path, "xml") \in objects
          /\ \E resp \in RespRecepcion \cup {"ERROR"} :
                envio' = [envio EXCEPT ![w].pc = "resp", ![w].resp = resp,
                             ![w].url = urls(emisores_ambiente[invoices[Head(envio[w].rows).id].emisor]).recepcion]
    /\ UNCHANGED <<admin, llamada, webhookUrl, saldo_inicial, emisores, balance, p12, credLock, secuencial_actual, ptoLock, invoices,
                   objects, transaction_logs, inv, firma, autz, debitos, webhooks>>

\* downloadFile of the row's xml_path, then axios.post to the reception
\* endpoint; pc "resp" means the POST was made (resp "ERROR": it threw).
EnvioPost(w) ==
    /\ envio[w].pc = "lote"
    /\ \/ envio' = [envio EXCEPT ![w] = JobNext(@)]        \* download throws
       \/ /\ PathObj(Head(envio[w].rows).xml_path, "xml") \in objects
          /\ \E resp \in RespRecepcion \cup {"ERROR"} :
                envio' = [envio EXCEPT ![w].pc = "resp", ![w].resp = resp,
                             ![w].url = urls(emisores_ambiente[invoices[Head(envio[w].rows).id].emisor]).recepcion]
    /\ UNCHANGED <<admin, llamada, webhookUrl, saldo_inicial, emisores, balance, p12, credLock, secuencial_actual, ptoLock, invoices,
                   objects, transaction_logs, inv, firma, autz, debitos, webhooks>>

\* Variant of EnvioUpdate in which a failed or unparsable reception call is
\* handled like any answer other than RECIBIDA.
EnvioUpdateSinCatch(w) ==
    /\ envio[w].pc = "resp"
    /\ LET id == Head(envio[w].rows).id IN
       \/ /\ envio[w].resp = "RECIBIDA"
          /\ invoices' = [invoices EXCEPT ![id].estado = "RECIBIDA",
                                          ![id].fecha_envio_sri = TRUE]
          /\ notificarCambioEstado(id, "RECIBIDA")
       \/ /\ envio[w].resp # "RECIBIDA"
          /\ invoices' = [invoices EXCEPT ![id].estado = "DEVUELTA",
                                          ![id].mensajes_sri = envio[w].resp,
                                          ![id].fecha_envio_sri = TRUE]
          /\ notificarCambioEstado(id, "DEVUELTA")
    /\ envio' = [envio EXCEPT ![w] = JobNext(@)]
    /\ UNCHANGED <<admin, llamada, webhookUrl, saldo_inicial, emisores, balance, p12, credLock, secuencial_actual, ptoLock,
                   objects, transaction_logs, inv, firma, autz, debitos>>

\* Variant of EnvioUpdate whose DEVUELTA branch runs the RECIBIDA statement's
\* column list (estado and fecha_envio_sri, no mensajes_sri).
EnvioUpdateSinMensajes(w) ==
    /\ envio[w].pc = "resp"
    /\ LET id == Head(envio[w].rows).id IN
       \/ /\ envio[w].resp = "ERROR"
          /\ UNCHANGED <<invoices, webhooks>>
       \/ /\ envio[w].resp = "RECIBIDA"
          /\ invoices' = [invoices EXCEPT ![id].estado = "RECIBIDA",
                                          ![id].fecha_envio_sri = TRUE]
          /\ notificarCambioEstado(id, "RECIBIDA")
       \/ /\ envio[w].resp \notin {"ERROR", "RECIBIDA"}
          /\ invoices' = [invoices EXCEPT ![id].estado = "DEVUELTA",
                                          ![id].fecha_envio_sri = TRUE]
          /\ notificarCambioEstado(id, "DEVUELTA")
    /\ envio' = [envio EXCEPT ![w] = JobNext(@)]
    /\ UNCHANGED <<admin, llamada, webhookUrl, saldo_inicial, emisores, balance, p12, credLock, secuencial_actual, ptoLock,
                   objects, transaction_logs, inv, firma, autz, debitos>>

\* UPDATE invoices SET estado = ... WHERE id = $id, then the webhook.
EnvioUpdate(w) ==
    /\ envio[w].pc = "resp"
    /\ LET id == Head(envio[w].rows).id IN
       \/ /\ envio[w].resp = "ERROR"
          /\ UNCHANGED <<invoices, webhooks>>
       \/ /\ envio[w].resp = "RECIBIDA"
          /\ invoices' = [invoices EXCEPT ![id].estado = "RECIBIDA",
                                          ![id].fecha_envio_sri = TRUE]
          /\ notificarCambioEstado(id, "RECIBIDA")
       \/ /\ envio[w].resp \notin {"ERROR", "RECIBIDA"}
          /\ invoices' = [invoices EXCEPT ![id].estado = "DEVUELTA",
                                          ![id].mensajes_sri = envio[w].resp,
                                          ![id].fecha_envio_sri = TRUE]
          /\ notificarCambioEstado(id, "DEVUELTA")
    /\ envio' = [envio EXCEPT ![w] = JobNext(@)]
    /\ UNCHANGED <<admin, llamada, webhookUrl, saldo_inicial, emisores, balance, p12, credLock, secuencial_actual, ptoLock,
                   objects, transaction_logs, inv, firma, autz, debitos>>

\* ------------------------------------------------ autorizarFacturasSRI
AutzSelect(w) ==
    /\ autz[w].pc = "idle"
    /\ SelectEstado("RECIBIDA") # <<>>
    /\ autz' = [autz EXCEPT ![w] =
          [pc |-> "lote", resp |-> "none", url |-> "none", rows |-> SelectEstado("RECIBIDA")]]
    /\ UNCHANGED <<admin, llamada, webhookUrl, saldo_inicial, emisores, balance, p12, credLock, secuencial_actual, ptoLock, invoices,
                   objects, transaction_logs, inv, firma, envio, debitos, webhooks>>

\* axios.post to the authorization endpoint; the call throws, or answers
\* numeroComprobantes = 0, or answers a first autorizacion record.
AutzPost(w) ==
    /\ autz[w].pc = "lote"
    /\ \/ autz' = [autz EXCEPT ![w] = JobNext(@)]
       \/ \E resp \in RespAutorizacion :
             autz' = [autz EXCEPT ![w].pc = "resp", ![w].resp = resp,
                        ![w].url = urls(emisores_ambiente[invoices[Head(autz[w].rows)].emisor]).autorizacion]
    /\ UNCHANGED <<admin, llamada, webhookUrl, saldo_inicial, emisores, balance, p12, credLock, secuencial_actual, ptoLock, invoices,
                   objects, transaction_logs, inv, firma, envio, debitos, webhooks>>

\* Variant of estadoFinal that rejects on every record that is not AUTORIZADO.
estadoFinalRechazado(estado) == "RECHAZADO"

\* Variant of estadoFinal without the NO AUTORIZADO -> RECHAZADO mapping.
estadoFinalVerbatim(estado) == estado

\* estadoFinal of the else branch
estadoFinal(estado) == IF estado = "NO AUTORIZADO" THEN "RECHAZADO" ELSE estado

\* Variant of AutzUpload that writes the authorized XML over the signed XML
\* of the row (the path the SELECT could have returned) instead of under
\* authorized/.
AutzUploadSobreFirmado(w) ==
    /\ autz[w].pc = "resp"
    /\ autz[w].resp = "AUTORIZADO"
    /\ LET id == Head(autz[w].rows) IN
       \/ /\ autz' = [autz EXCEPT ![w] = JobNext(@)]
          /\ UNCHANGED objects
       \/ /\ objects' = objects \cup {PathObj(invoices[id].xml_path, "xml")}
          /\ autz' = [autz EXCEPT ![w].pc = "subido"]
    /\ UNCHANGED <<admin, llamada, webhookUrl, saldo_inicial, emisores, balance, p12, credLock, secuencial_actual, ptoLock,
                   invoices, transaction_logs, inv, firma, envio, debitos, webhooks>>

\* autorizacion.estado = 'AUTORIZADO': uploadFile('invoices',
\* `authorized/${ruc}/${clave_acceso}.xml`); the key of a row that left
\* PENDIENTE never changes, so the row's key is the one the SELECT returned.
AutzUpload(w) ==
    /\ autz[w].pc = "resp"
    /\ autz[w].resp = "AUTORIZADO"
    /\ LET id  == Head(autz[w].rows)
           key == invoices[id].clave_acceso
       IN
       \/ /\ autz' = [autz EXCEPT ![w] = JobNext(@)]          \* uploadFile throws
          /\ UNCHANGED objects
       \/ /\ objects' = objects \cup {Obj("authorized", invoices[id].emisor, key[Len(key)], "xml")}
          /\ autz' = [autz EXCEPT ![w].pc = "subido"]
    /\ UNCHANGED <<admin, llamada, webhookUrl, saldo_inicial, emisores, balance, p12, credLock, secuencial_actual, ptoLock,
                   invoices, transaction_logs, inv, firma, envio, debitos, webhooks>>

\* UPDATE invoices SET estado = 'AUTORIZADO', xml_path, fecha_autorizacion WHERE
\* id = $4 after the upload (fecha_autorizacion TRUE: the response's
\* fechaAutorizacion is stored); in the else branch UPDATE invoices SET estado =
\* estadoFinal, mensajes_sri WHERE id = $3, then the webhook.
AutzUpdate(w) ==
    /\ LET id  == Head(autz[w].rows)
           key == invoices[id].clave_acceso
       IN
       \/ /\ autz[w].pc = "subido"
          /\ invoices' = [invoices EXCEPT
                ![id].estado = "AUTORIZADO",
                ![id].xml_path = Path("authorized", invoices[id].emisor, key[Len(key)]),
                ![id].fecha_autorizacion = TRUE]
          /\ autz' = [autz EXCEPT ![w].pc = "debito"]
          /\ UNCHANGED webhooks
       \/ /\ autz[w].pc = "resp"
          /\ autz[w].resp # "AUTORIZADO"
          /\ invoices' = [invoices EXCEPT ![id].estado = estadoFinal(autz[w].resp),
                                          ![id].mensajes_sri = autz[w].resp]
          /\ notificarCambioEstado(id, estadoFinal(autz[w].resp))
          /\ autz' = [autz EXCEPT ![w] = JobNext(@)]
    /\ UNCHANGED <<admin, llamada, webhookUrl, saldo_inicial, emisores, balance, p12, credLock, secuencial_actual, ptoLock,
                   objects, transaction_logs, inv, firma, envio, debitos>>

\* UPDATE user_credits SET balance = balance - 1 WHERE emisor_id = $1 (waits for
\* the row lock), then the webhook.
AutzDebito(w) ==
    /\ autz[w].pc = "debito"
    /\ LET id == Head(autz[w].rows)
           e  == invoices[id].emisor
       IN
       /\ credLock[e] = "free"
       /\ balance' = [balance EXCEPT ![e] = @ - 1]
       /\ debitos' = [debitos EXCEPT ![id] = @ + 1]
       /\ notificarCambioEstado(id, "AUTORIZADO")
    /\ autz' = [autz EXCEPT ![w] = JobNext(@)]
    /\ UNCHANGED <<admin, llamada, webhookUrl, saldo_inicial, emisores, p12, credLock, secuencial_actual, ptoLock, invoices,
                   objects, transaction_logs, inv, firma, envio>>

\* The state the synchronous route leaves after n issuances that succeeded
\* (reachable under SpecEmision: the route writes no balance).  The jobs'
\* database statements are taken to succeed; SOAP and object-store calls may fail.
FilasFirmadas(n) == [i \in 1..n |-> FilaFirmada("e1", i, "raiz", FALSE)]

InitLiquidacion ==
    /\ emisores = {"e1"}
    /\ balance \in {DeRegistrados(b, 0) : b \in 1..MaxInitBalance}
    /\ p12 = DeRegistrados("valid", "none")
    /\ \E n \in 1..MaxFilas :
          /\ secuencial_actual = DeRegistrados(n, 0)
          /\ invoices = FilasFirmadas(n)
          /\ objects = UNION {{Obj("raiz", "e1", i, "xml"), Obj("raiz", "e1", i, "pdf")} : i \in 1..n}
    /\ webhookUrl = FALSE
    /\ Quiescent
    /\ llamada = SinLlamada

\* One issued invoice and one credit, with the webhook configured
\* (WEB_HOOK_NOTIFICACIONES set).
InitNotificacion ==
    /\ emisores = {"e1"}
    /\ p12 = DeRegistrados("valid", "none")
    /\ balance = DeRegistrados(1, 0)
    /\ secuencial_actual = DeRegistrados(1, 0)
    /\ invoices = FilasFirmadas(1)
    /\ objects = {Obj("raiz", "e1", 1, "xml"), Obj("raiz", "e1", 1, "pdf")}
    /\ webhookUrl = TRUE
    /\ Quiescent
    /\ llamada = SinLlamada

\* ------------------------------------------------ specifications
\* Issuance: the two routes that create invoices, the signer and the top-up.
NextEmision ==
    \/ \E r \in Reqs, e \in Emisores : InvoiceBegin(r, e)
    \/ \E e \in Emisores : LeakedTxEnds(e)
    \/ \E r \in Reqs, c \in Codigos : InvoiceAlloc(r, c)
    \/ \E r \in Reqs : InvoiceUploadXml(r)
    \/ \E r \in Reqs : InvoiceUploadPdf(r)
    \/ \E r \in Reqs : InvoiceCommit(r)
    \/ \E e \in Emisores, c \in Codigos : Emit(e, c)
    \/ \E i \in 1..MaxInvoices : FirmarBegin(i)
    \/ FirmarUploadXml
    \/ FirmarUploadPdf
    \/ FirmarCommit
    \/ \E e \in Emisores, m \in Montos : Topup(e, m)

\* Settlement: the two jobs, each possibly running twice at once.
NextLiquidacion ==
    \/ \E w \in Runs : EnvioSelect(w)
    \/ \E w \in Runs : EnvioPost(w)
    \/ \E w \in Runs : EnvioUpdate(w)
    \/ \E w \in Runs : AutzSelect(w)
    \/ \E w \in Runs : AutzPost(w)
    \/ \E w \in Runs : AutzUpload(w)
    \/ \E w \in Runs : AutzUpdate(w)
    \/ \E w \in Runs : AutzDebito(w)

SpecEmision == Init /\ [][NextEmision]_vars
SpecLiquidacion == InitLiquidacion /\ [][NextLiquidacion]_vars
SpecNotificacion == InitNotificacion /\ [][NextLiquidacion]_vars

\* The program as app.js wires it: the HTTP route that enqueues PENDIENTE rows
\* and the two cron jobs.  No route, job or module of the program calls
\* firmarYEnviarLote, so the signer takes no step here.  node-cron fires both
\* jobs for ever and every await of a job ends (SOAP and webhook calls carry
\* timeouts), hence weak fairness of every job step; requests are not owed.
InitProgramado ==
    /\ emisores = {"e1"}
    /\ p12 = DeRegistrados("valid", "none")
    /\ balance = DeRegistrados(1, 0)
    /\ secuencial_actual = DeRegistrados(1, 0)
    /\ invoices = FilasFirmadas(1)
    /\ objects = {Obj("raiz", "e1", 1, "xml"), Obj("raiz", "e1", 1, "pdf")}
    /\ webhookUrl = FALSE
    /\ Quiescent
    /\ llamada = SinLlamada

NextProgramado ==
    \/ \E e \in Emisores, c \in Codigos : Emit(e, c)
    \/ NextLiquidacion

JobsFair ==
    \A w \in Runs :
        /\ WF_vars(EnvioSelect(w)) /\ WF_vars(EnvioPost(w)) /\ WF_vars(EnvioUpdate(w))
        /\ WF_vars(AutzSelect(w)) /\ WF_vars(AutzPost(w)) /\ WF_vars(AutzUpload(w))
        /\ WF_vars(AutzUpdate(w)) /\ WF_vars(AutzDebito(w))

SpecProgramado == InitProgramado /\ [][NextProgramado]_vars /\ JobsFair

\* The Submit job alone, started behind a full batch: LIMIT + 1 issued
\* invoices, of which the reception endpoint fails the LIMIT oldest on every
\* attempt (download or POST throws) and answers every attempt of the youngest.
\* node-cron keeps firing the job and every await ends: weak fairness.
InitCola ==
    /\ emisores = {"e1"}
    /\ p12 = DeRegistrados("valid", "none")
    /\ balance = DeRegistrados(1, 0)
    /\ secuencial_actual = DeRegistrados(LIMIT + 1, 0)
    /\ invoices = FilasFirmadas(LIMIT + 1)
    /\ objects = UNION {{Obj("raiz", "e1", i, "xml"), Obj("raiz", "e1", i, "pdf")} : i \in 1..(LIMIT + 1)}
    /\ webhookUrl = FALSE
    /\ Quiescent
    /\ llamada = SinLlamada

\* what the endpoint does with the row at the head of run w
RecepcionDeLaCola(w) ==
    IF Head(envio[w].rows).id <= LIMIT
      THEN envio'[w].pc # "resp" \/ envio'[w].resp = "ERROR"
      ELSE envio'[w].pc = "resp" /\ envio'[w].resp # "ERROR"

NextCola ==
    \/ \E w \in Runs : EnvioSelect(w)
    \/ \E w \in Runs : EnvioPost(w) /\ RecepcionDeLaCola(w)
    \/ \E w \in Runs : EnvioUpdate(w)

SpecCola ==
    /\ InitCola
    /\ [][NextCola]_vars
    /\ \A w \in Runs : /\ WF_vars(EnvioSelect(w))
                       /\ WF_vars(EnvioPost(w) /\ RecepcionDeLaCola(w))
                       /\ WF_vars(EnvioUpdate(w))

\* One execution of each job over a batch of two invoices, with the webhook
\* configured.
InitLote ==
    /\ emisores = {"e1"}
    /\ p12 = DeRegistrados("valid", "none")
    /\ balance = DeRegistrados(2, 0)
    /\ secuencial_actual = DeRegistrados(2, 0)
    /\ invoices = FilasFirmadas(2)
    /\ objects = UNION {{Obj("raiz", "e1", i, "xml"), Obj("raiz", "e1", i, "pdf")} : i \in 1..2}
    /\ webhookUrl = TRUE
    /\ Quiescent
    /\ llamada = SinLlamada

NextLote ==
    \/ EnvioSelect("w1")
    \/ EnvioPost("w1")
    \/ EnvioUpdate("w1")
    \/ AutzSelect("w1")
    \/ AutzPost("w1")
    \/ AutzUpload("w1")
    \/ AutzUpdate("w1")
    \/ AutzDebito("w1")

SpecLote == InitLote /\ [][NextLote]_vars

\* The Authorize job together with the admin top-up, on one invoice that the
\* reception endpoint has accepted.
InitSaldo ==
    /\ emisores = {"e1"}
    /\ p12 = DeRegistrados("valid", "none")
    /\ balance \in {DeRegistrados(b, 0) : b \in 1..MaxInitBalance}
    /\ secuencial_actual = DeRegistrados(1, 0)
    /\ invoices = <<[FilaFirmada("e1", 1, "raiz", FALSE)
                        EXCEPT !.estado = "RECIBIDA", !.fecha_envio_sri = TRUE]>>
    /\ objects = {Obj("raiz", "e1", 1, "xml"), Obj("raiz", "e1", 1, "pdf")}
    /\ webhookUrl = FALSE
    /\ Quiescent
    /\ llamada = SinLlamada

NextSaldo ==
    \/ \E w \in Runs : AutzSelect(w)
    \/ \E w \in Runs : AutzPost(w)
    \/ \E w \in Runs : AutzUpload(w)
    \/ \E w \in Runs : AutzUpdate(w)
    \/ \E w \in Runs : AutzDebito(w)
    \/ \E e \in Emisores, m \in Montos : Topup(e, m)

SpecSaldo == InitSaldo /\ [][NextSaldo]_vars

\* ------------------------------------------------ GET /integrations/status
\* data.ambiente === 1 ? 'PRUEBAS' : 'PRODUCCIÓN'
ambienteStatus(data_ambiente) ==
    IF data_ambiente = JsNumber(1) THEN "PRUEBAS" ELSE "PRODUCCION"

\* A request of issuer e's API key arrives (apiKeyAuth has set req.emisor_id).
RecibeStatus(e) ==
    /\ llamada.fase # "call"
    /\ llamada' = [fn |-> "GET /integrations/status", args |-> <<e>>, fase |-> "call", ret |-> <<>>]
    /\ UNCHANGED <<admin, webhookUrl, saldo_inicial, emisores, balance, p12, credLock, secuencial_actual,
                   ptoLock, invoices, objects, transaction_logs, inv, firma, envio, autz,
                   debitos, webhooks>>

\* The handler: 404 without a row of emisores, 500 when the query throws,
\* otherwise 200 with emisor.ambiente (the other fields of the body are not
\* kept).
Status ==
    /\ llamada.fn = "GET /integrations/status"
    /\ llamada.fase = "call"
    /\ LET e == llamada.args[1] IN
       \/ llamada' = [llamada EXCEPT !.fase = "return", !.ret = <<500>>]
       \/ /\ e \notin emisores
          /\ llamada' = [llamada EXCEPT !.fase = "return", !.ret = <<404>>]
       \/ /\ e \in emisores
          /\ llamada' = [llamada EXCEPT !.fase = "return",
                             !.ret = <<200, ambienteStatus(emisores_ambiente[e])>>]
    /\ UNCHANGED <<admin, webhookUrl, saldo_inicial, emisores, balance, p12, credLock, secuencial_actual,
                   ptoLock, invoices, objects, transaction_logs, inv, firma, envio, autz,
                   debitos, webhooks>>

\* emisores.ambiente is 1 (test) or 2 (production); the driver hands an
\* integer column to the code as a number and a text column as a string
ValoresAmbiente == {JsNumber(1), JsNumber(2), JsString(1), JsString(2)}

\* One issued invoice of an issuer in either environment, the two jobs and the
\* status route.
InitAmbiente ==
    /\ emisores = {"e1"}
    /\ p12 = DeRegistrados("valid", "none")
    /\ balance = DeRegistrados(1, 0)
    /\ secuencial_actual = DeRegistrados(1, 0)
    /\ invoices = FilasFirmadas(1)
    /\ objects = {Obj("raiz", "e1", 1, "xml"), Obj("raiz", "e1", 1, "pdf")}
    /\ webhookUrl = FALSE
    /\ Reposo
    /\ emisores_ambiente \in {[e \in Emisores |-> a] : a \in ValoresAmbiente}
    /\ llamada = SinLlamada

NextAmbiente ==
    \/ NextLote
    \/ \E e \in Emisores : RecibeStatus(e)
    \/ Status

SpecAmbiente == InitAmbiente /\ [][NextAmbiente]_vars

\* ------------------------------------------------ pure functions
\* Nothing registered, issued or in progress: the state in which the pure
\* functions are examined on their own.
Parado ==
    /\ emisores = {}
    /\ balance = [e \in Emisores |-> 0]
    /\ p12 = [e \in Emisores |-> "none"]
    /\ secuencial_actual = [e \in Emisores |-> 0]
    /\ invoices = <<>>
    /\ objects = {}
    /\ webhookUrl = FALSE
    /\ Quiescent

\* A string is a sequence of characters; the character of a decimal digit is
\* that digit.
DigitosMuestra == {0, 1, 7, 9}
Cadenas == UNION ({[1..k -> 0..9] : k \in 0..MaxCorta}
                  \cup {[1..k -> DigitosMuestra] : k \in 0..MaxCadena})

\* the for loop of modulo11: i runs from the last character down to the first
RECURSIVE SumaPonderada(_, _, _, _)
SumaPonderada(cadena, i, factor, suma) ==
    IF i < 1 THEN suma
    ELSE SumaPonderada(cadena, i - 1, IF factor = 7 THEN 2 ELSE factor + 1,
                       suma + cadena[i] * factor)

\* Variant of modulo11 without the two if statements after the subtraction.
modulo11SinAjuste(cadena) == 11 - (SumaPonderada(cadena, Len(cadena), 2, 0) % 11)

modulo11(cadena) ==
    LET verificador == 11 - (SumaPonderada(cadena, Len(cadena), 2, 0) % 11) IN
    IF verificador = 11 THEN 0
    ELSE IF verificador = 10 THEN 1
    ELSE verificador

InitModulo11 ==
    /\ Parado
    /\ llamada \in {[fn |-> "modulo11", args |-> <<c>>, fase |-> "call", ret |-> <<>>] : c \in Cadenas}

Modulo11Llamada ==
    /\ llamada.fn = "modulo11"
    /\ llamada.fase = "call"
    /\ llamada' = [llamada EXCEPT !.fase = "return", !.ret = modulo11(llamada.args[1])]
    /\ UNCHANGED <<admin, webhookUrl, saldo_inicial, emisores, balance, p12, credLock, secuencial_actual,
                   ptoLock, invoices, objects, transaction_logs, inv, firma, envio, autz,
                   debitos, webhooks>>

SpecModulo11 == InitModulo11 /\ [][Modulo11Llamada]_vars

\* ---------------- generarClaveAcceso
\* Characters other than decimal digits are written as their code points.
GUION  == <<45>>                                \* "-"
NOW    == <<110, 111, 119>>                     \* "now"
InvalidDateTime == <<73, 110, 118, 97, 108, 105, 100, 32, 68, 97, 116, 101, 84, 105, 109, 101>>

\* DateTime.now().setZone('America/Guayaquil'): one reading of the clock
ahora == [ddMMyyyy |-> <<0, 1, 1, 1, 2, 0, 2, 6>>, HHmmss |-> <<0, 3, 1, 6, 3, 8>>, SSS |-> <<0, 4, 2>>]

\* DateTime.fromISO(fecha).toFormat('ddMMyyyy') for a calendar date
\* yyyy-MM-dd (days 29 to 31, whose validity depends on the month, are not
\* drawn); any other text gives Luxon's 'Invalid DateTime'
Numero(ds) == IF Len(ds) = 2 THEN 10 * ds[1] + ds[2] ELSE 0
EsFechaISO(fecha) ==
    /\ Len(fecha) = 10
    /\ \A i \in {1, 2, 3, 4, 6, 7, 9, 10} : fecha[i] \in 0..9
    /\ <<fecha[5]>> = GUION /\ <<fecha[8]>> = GUION
    /\ Numero(SubSeq(fecha, 6, 7)) \in 1..12
    /\ Numero(SubSeq(fecha, 9, 10)) \in 1..28
fromISOtoFormat(fecha) ==
    IF EsFechaISO(fecha)
      THEN SubSeq(fecha, 9, 10) \o SubSeq(fecha, 6, 7) \o SubSeq(fecha, 1, 4)
      ELSE InvalidDateTime

limpiar(val)    == SelectSeq(val, LAMBDA c : c \in 0..9)          \* replace(/\D/g, '')
padStart(s, n)  == IF Len(s) >= n THEN s ELSE [i \in 1..(n - Len(s)) |-> 0] \o s
substring(s, n) == SubSeq(s, 1, IF Len(s) < n THEN Len(s) ELSE n)  \* substring(0, n)

\* the 48 characters before the check digit
clave48(fecha, tipoComprobante, ruc, ambiente, serie, secuencial, codigoNumerico) ==
    LET finalFecha  == IF fecha # <<>> /\ fecha # NOW THEN fromISOtoFormat(fecha)
                       ELSE ahora.ddMMyyyy
        codigoFinal == IF codigoNumerico = <<>>
                         THEN ahora.HHmmss \o substring(ahora.SSS, 2)
                         ELSE codigoNumerico
    IN  substring(limpiar(finalFecha), 8)
        \o substring(padStart(limpiar(tipoComprobante), 2), 2)
        \o substring(limpiar(ruc), 13)
        \o substring(limpiar(ambiente), 1)
        \o substring(padStart(limpiar(serie), 6), 6)
        \o substring(padStart(limpiar(secuencial), 9), 9)
        \o substring(padStart(limpiar(codigoFinal), 8), 8)
        \o <<1>>

\* Variant of generarClaveAcceso without the test of clave48.length.
generarClaveAccesoSinLongitud(fecha, tipoComprobante, ruc, ambiente, serie, secuencial, codigoNumerico) ==
    LET c == clave48(fecha, tipoComprobante, ruc, ambiente, serie, secuencial, codigoNumerico) IN
    [throws |-> FALSE, value |-> Append(c, modulo11(c))]

generarClaveAcceso(fecha, tipoComprobante, ruc, ambiente, serie, secuencial, codigoNumerico) ==
    LET c == clave48(fecha, tipoComprobante, ruc, ambiente, serie, secuencial, codigoNumerico) IN
    IF Len(c) # 48 THEN [throws |-> TRUE, value |-> <<>>]
    ELSE [throws |-> FALSE, value |-> Append(c, modulo11(c))]

\* argument values the callers and other clients may pass
Fechas      == {<<>>, NOW, <<2, 0, 2, 6>> \o GUION \o <<1, 1>> \o GUION \o <<0, 1>>,
                <<0, 1, 47, 1, 1, 47, 2, 0, 2, 6>>}
Tipos       == {<<0, 1>>, <<4>>}
Rucs        == {RUC, SubSeq(RUC, 1, 10), SubSeq(RUC, 1, 10) \o GUION \o SubSeq(RUC, 11, 13), RUC \o <<9>>}
Ambientes   == {<<1>>, <<2>>, <<>>}
Series      == {<<0, 0, 1, 1, 0, 0>>, <<1, 1, 0, 0>>, <<0, 0, 1>> \o GUION \o <<1, 0, 0>>}
Secuenciales == {<<0, 0, 0, 0, 0, 0, 0, 0, 7>>, <<7>>, <<1, 2, 3, 4, 5, 6, 7, 8, 9, 0>>}
CodigosNumericos == {<<>>, <<1, 2, 3, 4, 5, 6, 7, 8>>, <<97, 98, 99>>}

\* One issuer with a credit and a credential; a client is about to have an
\* access key generated (step 5 of POST /integrations/invoice, or any other
\* caller of the exported function).
InitClave ==
    /\ emisores = {"e1"}
    /\ balance = DeRegistrados(1, 0)
    /\ p12 = DeRegistrados("valid", "none")
    /\ secuencial_actual = [e \in Emisores |-> 0]
    /\ invoices = <<>>
    /\ objects = {}
    /\ webhookUrl = FALSE
    /\ Quiescent
    /\ llamada \in {[fn |-> "generarClaveAcceso", fase |-> "call", ret |-> <<>>,
                      args |-> <<f, t, r, a, se, sq, cn>>] :
                        f \in Fechas, t \in Tipos, r \in Rucs, a \in Ambientes, se \in Series,
                        sq \in Secuenciales, cn \in CodigosNumericos}

ClaveLlamada ==
    /\ llamada.fn = "generarClaveAcceso"
    /\ llamada.fase = "call"
    /\ LET a == llamada.args
           r == generarClaveAcceso(a[1], a[2], a[3], a[4], a[5], a[6], a[7])
       IN llamada' = [llamada EXCEPT !.fase = IF r.throws THEN "throw" ELSE "return",
                                     !.ret = r.value]
    /\ UNCHANGED <<admin, webhookUrl, saldo_inicial, emisores, balance, p12, credLock, secuencial_actual,
                   ptoLock, invoices, objects, transaction_logs, inv, firma, envio, autz,
                   debitos, webhooks>>

\* Step 9 of the route with the key of step 5: INSERT INTO invoices (...,
\* clave_acceso, estado, ...) VALUES (..., claveAcceso, 'FIRMADO', ...); a throw
\* of step 5 goes to the catch and inserts nothing.
ClaveInsert ==
    /\ llamada.fn = "generarClaveAcceso"
    /\ llamada.fase = "return"
    /\ Len(invoices) < MaxInvoices
    /\ \A i \in Ids : invoices[i].estado = "PENDIENTE"
    /\ invoices' = Append(invoices, [FilaFirmada("e1", 1, "raiz", FALSE) EXCEPT
                                        !.clave_acceso = llamada.ret])
    /\ UNCHANGED <<admin, llamada, webhookUrl, saldo_inicial, emisores, balance, p12, credLock, secuencial_actual,
                   ptoLock, objects, transaction_logs, inv, firma, envio, autz,
                   debitos, webhooks>>

NextClave ==
    \/ ClaveLlamada
    \/ ClaveInsert
    \/ \E e \in Emisores, c \in Codigos : Emit(e, c)

SpecClave == InitClave /\ [][NextClave]_vars

\* ---------------- calcularTotalesEImpuestos
\* Amounts are JavaScript numbers; they are written here as integers counting
\* hundred-thousandths (0.00001), which holds every product of a quantity in
\* tenths, a price in cents and a whole percentage exactly.  The items drawn
\* put no amount on a rounding tie, where the error of the double would decide.
\* A tariff is written in hundredths (15 is 0.15, 1500 is 15), and for the
\* fractions drawn the double product tarifaRaw * 100 is the whole number.
Cantidades == {4, 10}          \* cantidad 0.4 and 1, in tenths
Precios    == {4, 8}           \* precioUnitario 0.04 and 0.08, in cents
Tarifas    == {0, 500, 1200, 1500, 5, 12, 15, 5000}
                               \* tarifaIva 0, 5, 12, 15, 0.05, 0.12, 0.15 and 50
Items == [cantidad : Cantidades, precioUnitario : Precios, descuento : {0}, tarifaIva : Tarifas]
ListasDeItems == UNION {[1..n -> Items] : n \in 0..MaxItems}

\* keyed by the whole percentage; the codes are single characters
CODIGOS_IVA ==
    [t \in {0, 5, 12, 15} |->
        [codigo |-> 2,
         codigoPorcentaje |-> CASE t = 0 -> 0 [] t = 12 -> 2 [] t = 15 -> 4 [] t = 5 -> 5]]

\* Number.prototype.toFixed(2): the nearest number of cents, a tie going away
\* from zero; the result is written in cents
toFixed(x) ==
    LET a == IF x < 0 THEN -x ELSE x
        n == (a + 500) \div 1000
    IN  IF x < 0 THEN -n ELSE n

precioTotalSinImpuesto(item) ==
    item.cantidad * item.precioUnitario * 100 - item.descuento * 1000

\* (tarifaRaw > 0 && tarifaRaw < 1) ? tarifaRaw * 100 : tarifaRaw, in hundredths
tarifa(item) ==
    IF item.tarifaIva > 0 /\ item.tarifaIva < 100 THEN item.tarifaIva * 100
    ELSE item.tarifaIva

\* CODIGOS_IVA[tarifa] || CODIGOS_IVA[0]
infoSri(item) ==
    IF tarifa(item) % 100 = 0 /\ (tarifa(item) \div 100) \in DOMAIN CODIGOS_IVA
      THEN CODIGOS_IVA[tarifa(item) \div 100]
      ELSE CODIGOS_IVA[0]

\* precioTotalSinImpuesto * (tarifa / 100)
valorImpuesto(item) ==
    (precioTotalSinImpuesto(item) * tarifa(item)) \div 10000

RECURSIVE SumaSeq(_)
SumaSeq(xs) == IF xs = <<>> THEN 0 ELSE Head(xs) + SumaSeq(Tail(xs))

\* impuestosAcumulados: one entry per tarifa that occurs among the items,
\* with the codes of the first item that opened it (all items of one tarifa
\* get the same infoSri)
impuestosAcumulados(items) ==
    [t \in {tarifa(items[i]) : i \in 1..Len(items)} |->
        LET deT == SelectSeq(items, LAMBDA it : tarifa(it) = t) IN
        [codigo |-> infoSri(deT[1]).codigo,
         codigoPorcentaje |-> infoSri(deT[1]).codigoPorcentaje,
         tarifa |-> t,
         baseImponible |-> SumaSeq([i \in 1..Len(deT) |-> precioTotalSinImpuesto(deT[i])]),
         valor |-> SumaSeq([i \in 1..Len(deT) |-> valorImpuesto(deT[i])])]]

RECURSIVE SumaCampo(_, _, _)
SumaCampo(acc, claves, campo) ==
    IF claves = {} THEN 0
    ELSE LET t == CHOOSE x \in claves : TRUE IN
         acc[t][campo] + SumaCampo(acc, claves \ {t}, campo)

\* the element of detallesXml built for one item (amounts formatted)
detalleXml(item) ==
    [precioTotalSinImpuesto |-> toFixed(precioTotalSinImpuesto(item)),
     impuesto |-> [codigo |-> infoSri(item).codigo,
                   codigoPorcentaje |-> infoSri(item).codigoPorcentaje,
                   tarifa |-> tarifa(item),
                   baseImponible |-> toFixed(precioTotalSinImpuesto(item)),
                   valor |-> toFixed(valorImpuesto(item))]]

calcularTotalesEImpuestos(items) ==
    LET acc == impuestosAcumulados(items)
        totalSinImpuestos == SumaSeq([i \in 1..Len(items) |-> precioTotalSinImpuesto(items[i])])
        totalDescuento    == SumaSeq([i \in 1..Len(items) |-> items[i].descuento * 1000])
        totalIvaGeneral   == SumaCampo(acc, DOMAIN acc, "valor")
        importeTotal      == totalSinImpuestos + totalIvaGeneral
        subtotal_0        == SumaCampo(acc, {t \in DOMAIN acc : acc[t].tarifa = 0}, "baseImponible")
        subtotal_iva      == SumaCampo(acc, {t \in DOMAIN acc : acc[t].tarifa # 0}, "baseImponible")
    IN  [detallesXml |-> [i \in 1..Len(items) |-> detalleXml(items[i])],
         totalConImpuestosXml |->
            [t \in DOMAIN acc |-> [codigo |-> acc[t].codigo,
                                   codigoPorcentaje |-> acc[t].codigoPorcentaje,
                                   baseImponible |-> toFixed(acc[t].baseImponible),
                                   valor |-> toFixed(acc[t].valor)]],
         totales |-> [totalSinImpuestos |-> toFixed(totalSinImpuestos),
                      totalDescuento |-> toFixed(totalDescuento),
                      importeTotal |-> toFixed(importeTotal),
                      totalIva |-> toFixed(totalIvaGeneral),
                      subtotal_0 |-> toFixed(subtotal_0),
                      subtotal_iva |-> toFixed(subtotal_iva)]]

InitCalculo ==
    /\ Parado
    /\ llamada \in {[fn |-> "calcularTotalesEImpuestos", args |-> <<items>>,
                      fase |-> "call", ret |-> <<>>] : items \in ListasDeItems}

CalculoLlamada ==
    /\ llamada.fn = "calcularTotalesEImpuestos"
    /\ llamada.fase = "call"
    /\ llamada' = [llamada EXCEPT !.fase = "return",
                                  !.ret = calcularTotalesEImpuestos(llamada.args[1])]
    /\ UNCHANGED <<admin, webhookUrl, saldo_inicial, emisores, balance, p12, credLock, secuencial_actual,
                   ptoLock, invoices, objects, transaction_logs, inv, firma, envio, autz,
                   debitos, webhooks>>

SpecCalculo == InitCalculo /\ [][CalculoLlamada]_vars

\* ------------------------------------------------ signing certificate
\* A bag of type certBag as getBags returns it: cert (FALSE: the bag carries no
\* parsed certificate), cert.cA, the keyUsage extension ("ninguno": the
\* certificate has none; "ds", "nr", "ds+nr": the usages it lists among
\* digitalSignature and nonRepudiation) and attributes.localKeyId (0: none).
SinCertificado == [cert |-> FALSE, cA |-> FALSE, keyUsage |-> "ninguno", localKeyId |-> 0]
KeyUsages == {"ninguno", "ds", "nr", "ds+nr"}
CertBags == [cert : {TRUE}, cA : BOOLEAN, keyUsage : KeyUsages, localKeyId : {0}]
                \cup {SinCertificado}
ListasDeCertBags == UNION {[1..n -> CertBags] : n \in 0..MaxBolsas}

\* Array.prototype.find over the indexes in S: the first one, 0 when none
find(S) == IF S = {} THEN 0 ELSE CHOOSE i \in S : \A j \in S : i <= j

\* what a selection gives back: the index of the bag chosen, or what it throws
Elegido(i)  == [bag |-> i, throws |-> "none"]
Lanza(err)  == [bag |-> 0, throws |-> err]

\* the three find calls the two helpers share, over the bags whose first
\* test (the indexes in usables) lets them through
PorPrioridad(bags, usables) ==
    LET p1 == find({i \in usables : bags[i].keyUsage = "ds+nr"})
        p2 == find({i \in usables : bags[i].keyUsage \in {"ds", "ds+nr"}})
        p3 == find(usables)
    IN  IF p1 # 0 THEN p1 ELSE IF p2 # 0 THEN p2 ELSE p3

\* _seleccionarCertDeFirma of the signer: a bag without cert, or whose cert.cA
\* is set, fails every find; throws Error when no find gives a bag.
seleccionarCertDeFirma(bags) ==
    LET targetBag == PorPrioridad(bags, {i \in DOMAIN bags : bags[i].cert /\ ~bags[i].cA})
    IN  IF targetBag = 0 THEN Lanza("Error") ELSE Elegido(targetBag)

\* seleccionarCertificadoDeFirma of the issuance service: the forEach that
\* logs the bags, and each find, read bag.cert.cA and call
\* bag.cert.getExtension without testing bag.cert (TypeError on a bag without
\* cert); throws Error when no find gives a bag.
seleccionarCertificadoDeFirma(certBags) ==
    IF \E i \in DOMAIN certBags : ~certBags[i].cert THEN Lanza("TypeError")
    ELSE LET target == PorPrioridad(certBags, {i \in DOMAIN certBags : ~certBags[i].cA})
         IN  IF target = 0 THEN Lanza("Error") ELSE Elegido(target)

InitCertificado ==
    /\ Parado
    /\ llamada \in {[fn |-> f, args |-> <<bags>>, fase |-> "call", ret |-> <<>>] :
                      f \in {"_seleccionarCertDeFirma", "seleccionarCertificadoDeFirma"},
                      bags \in ListasDeCertBags}

CertificadoLlamada ==
    /\ llamada.fase = "call"
    /\ llamada.fn \in {"_seleccionarCertDeFirma", "seleccionarCertificadoDeFirma"}
    /\ LET r == IF llamada.fn = "_seleccionarCertDeFirma"
                THEN seleccionarCertDeFirma(llamada.args[1])
                ELSE seleccionarCertificadoDeFirma(llamada.args[1])
       IN  llamada' = [llamada EXCEPT !.fase = IF r.throws = "none" THEN "return" ELSE "throw",
                                      !.ret = r]
    /\ UNCHANGED <<admin, webhookUrl, saldo_inicial, emisores, balance, p12, credLock, secuencial_actual,
                   ptoLock, invoices, objects, transaction_logs, inv, firma, envio, autz,
                   debitos, webhooks>>

SpecCertificado == InitCertificado /\ [][CertificadoLlamada]_vars

\* ------------------------------------------------ signing key
\* A bag of type pkcs8ShroudedKeyBag: attributes.localKeyId (0: none) and
\* attributes.friendlyName ("": none).
FriendlyNames == {"", "Signing Key", "Decryption Key"}
KeyBags == [localKeyId : 0..2, friendlyName : FriendlyNames]
ListasDeKeyBags == UNION {[1..n -> KeyBags] : n \in 0..MaxBolsas}

\* String.prototype.toLowerCase and includes, on the names drawn
toLowerCase(name) ==
    CASE name = "Signing Key" -> "signing key"
      [] name = "Decryption Key" -> "decryption key"
      [] OTHER -> name
includes(str, searchString) == str = searchString

\* _seleccionarLlaveDeFirma(p12, localKeyIdCert): the index of the key bag
\* whose key is returned.  Buffer.from(id).toString('hex') is one to one, so
\* the hex strings are equal exactly when the ids are.
seleccionarLlaveDeFirma(keyBags, localKeyIdCert) ==
    IF Len(keyBags) = 0 THEN Lanza("Error")
    ELSE IF Len(keyBags) = 1 THEN Elegido(1)
    ELSE LET matchById == IF localKeyIdCert = 0 THEN 0
                          ELSE find({i \in DOMAIN keyBags : /\ keyBags[i].localKeyId # 0
                                                            /\ keyBags[i].localKeyId = localKeyIdCert})
             matchByName == find({i \in DOMAIN keyBags :
                                     includes(toLowerCase(keyBags[i].friendlyName), "signing key")})
         IN  IF matchById # 0 THEN Elegido(matchById)
             ELSE IF matchByName # 0 THEN Elegido(matchByName)
             ELSE Elegido(Len(keyBags))

\* the certificate and the key a signature is made with
Firmado(cert, key) == [cert |-> cert, key |-> key, throws |-> "none"]
NoFirmado(err)     == [cert |-> 0, key |-> 0, throws |-> err]

\* Variant of signInvoiceXmlCustom that signs with the bags it is handed
\* (0: undefined).
signInvoiceXmlCustomConArgumentos(xml, certBag, keyBag, contenedor) ==
    IF certBag = 0 \/ keyBag = 0 THEN NoFirmado("Error")
    ELSE Firmado(certBag, keyBag)

\* signInvoiceXmlCustom(xml, certBag, keyBag, p12): the certificate and the
\* key come from the two helpers over the container p12; certBag and keyBag are not read.
signInvoiceXmlCustom(xml, certBag, keyBag, contenedor) ==
    LET certificate == seleccionarCertDeFirma(contenedor.certBags) IN
    IF certificate.throws # "none" THEN NoFirmado(certificate.throws)
    ELSE LET privateKey == seleccionarLlaveDeFirma(contenedor.keyBags,
                                 contenedor.certBags[certificate.bag].localKeyId) IN
         IF privateKey.throws # "none" THEN NoFirmado(privateKey.throws)
         ELSE Firmado(certificate.bag, privateKey.bag)

\* the containers handed to signInvoiceXmlCustom: shorter lists over the
\* signing certificates (keyUsage ds+nr) and over the keys with the ids 0, 1
ContenedoresP12 ==
    [certBags : UNION {[1..n -> [cert : {TRUE}, cA : BOOLEAN, keyUsage : {"ds+nr"},
                                  localKeyId : 0..1]] : n \in 0..(MaxBolsas - 1)},
     keyBags  : UNION {[1..n -> [localKeyId : 0..1, friendlyName : {"", "Signing Key"}]] :
                          n \in 0..(MaxBolsas - 1)}]

InitLlaveFirma ==
    /\ Parado
    /\ llamada \in
          {[fn |-> "_seleccionarLlaveDeFirma", args |-> <<keyBags, id>>, fase |-> "call", ret |-> <<>>] :
              keyBags \in ListasDeKeyBags, id \in 0..2}
          \cup
          {[fn |-> "signInvoiceXmlCustom", args |-> <<certBag, keyBag, c>>, fase |-> "call", ret |-> <<>>] :
              certBag \in 0..(MaxBolsas - 1), keyBag \in 0..(MaxBolsas - 1), c \in ContenedoresP12}

LlaveFirmaLlamada ==
    /\ llamada.fase = "call"
    /\ llamada.fn = "_seleccionarLlaveDeFirma"
    /\ LET r == seleccionarLlaveDeFirma(llamada.args[1], llamada.args[2])
       IN  llamada' = [llamada EXCEPT !.fase = IF r.throws = "none" THEN "return" ELSE "throw",
                                      !.ret = r]
    /\ UNCHANGED <<admin, webhookUrl, saldo_inicial, emisores, balance, p12, credLock, secuencial_actual,
                   ptoLock, invoices, objects, transaction_logs, inv, firma, envio, autz,
                   debitos, webhooks>>

FirmaLlamada ==
    /\ llamada.fase = "call"
    /\ llamada.fn = "signInvoiceXmlCustom"
    /\ LET r == signInvoiceXmlCustom("xml", llamada.args[1], llamada.args[2], llamada.args[3])
       IN  llamada' = [llamada EXCEPT !.fase = IF r.throws = "none" THEN "return" ELSE "throw",
                                      !.ret = r]
    /\ UNCHANGED <<admin, webhookUrl, saldo_inicial, emisores, balance, p12, credLock, secuencial_actual,
                   ptoLock, invoices, objects, transaction_logs, inv, firma, envio, autz,
                   debitos, webhooks>>

NextLlaveFirma ==
    \/ LlaveFirmaLlamada
    \/ FirmaLlamada

SpecLlaveFirma == InitLlaveFirma /\ [][NextLlaveFirma]_vars

\* ================================================ account administration
\* Every issuer id registered, each with its default establishment and point,
\* no credential, no credit, nothing issued.
InitCuentas ==
    /\ emisores = Emisores
    /\ balance = [e \in Emisores |-> 0]
    /\ p12 = [e \in Emisores |-> "none"]
    /\ secuencial_actual = [e \in Emisores |-> 0]
    /\ invoices = <<>>
    /\ objects = {}
    /\ webhookUrl = FALSE
    /\ Quiescent
    /\ llamada = SinLlamada

\* ------------------------------------------------ API keys
\* Raw keys a client may present in x-api-key ("" is an absent or empty
\* header); `kp_live_${randomBytes(24)}` is one not generated before.
Llaves == {"k1", "k2", "k3"}
Cabeceras == Llaves \cup {""}

\* crypto.createHash('sha256').update(k).digest('hex'): no two keys of Llaves
\* have the same digest, and no digest is itself a key
sha256(k) == <<"sha256", k>>

\* POST /keys by a user of issuer e: INSERT INTO api_keys (emisor_id, key_hash,
\* key_prefix, nombre); revoked defaults to false.
CrearLlave(e) ==
    /\ e \in emisores
    /\ Len(api_keys) < MaxLlaves
    /\ \E rawKey \in Llaves :
          /\ \A i \in 1..Len(api_keys) : api_keys[i].key_hash # sha256(rawKey)
          /\ api_keys' = Append(api_keys, [emisor_id |-> e, key_hash |-> sha256(rawKey),
                                           revoked |-> FALSE])
    /\ UNCHANGED <<emisores_ruc, establecimientos, puntos_emision, user_credits, profiles, act,
                   p12_path, certificates, emisores_ambiente, llamada, webhookUrl, saldo_inicial, emisores, balance, p12, credLock,
                   secuencial_actual, ptoLock, invoices, objects, transaction_logs, inv,
                   firma, envio, autz, debitos, webhooks, emisores_ambiente>>

\* DELETE /keys/:id by a user of issuer e: UPDATE api_keys SET revoked = true
\* WHERE id = $1 AND emisor_id = $2; no row matched is a 404.
RevocarLlave(e, id) ==
    /\ e \in emisores
    /\ id \in 1..Len(api_keys)
    /\ api_keys[id].emisor_id = e
    /\ api_keys' = [api_keys EXCEPT ![id].revoked = TRUE]
    /\ UNCHANGED <<emisores_ruc, establecimientos, puntos_emision, user_credits, profiles, act,
                   p12_path, certificates, emisores_ambiente, llamada, webhookUrl, saldo_inicial, emisores, balance, p12, credLock,
                   secuencial_actual, ptoLock, invoices, objects, transaction_logs, inv,
                   firma, envio, autz, debitos, webhooks, emisores_ambiente>>

\* Variant of FilasDeLlave without the condition revoked = false.
FilasDeLlaveSinRevoked(apiKey) ==
    {i \in 1..Len(api_keys) : api_keys[i].key_hash = sha256(apiKey)}

\* SELECT emisor_id, nombre FROM api_keys WHERE key_hash = $1 AND revoked = false
FilasDeLlave(apiKey) ==
    {i \in 1..Len(api_keys) : api_keys[i].key_hash = sha256(apiKey) /\ ~api_keys[i].revoked}

\* a request carrying apiKey in x-api-key reaches the middleware
RecibeApiKey(apiKey) ==
    /\ llamada.fase # "call"
    /\ llamada' = [fn |-> "apiKeyMiddleware", args |-> <<apiKey>>, fase |-> "call", ret |-> <<>>]
    /\ UNCHANGED <<admin, webhookUrl, saldo_inicial, emisores, balance, p12, credLock,
                   secuencial_actual, ptoLock, invoices, objects, transaction_logs, inv,
                   firma, envio, autz, debitos, webhooks, emisores_ambiente>>

\* apiKeyMiddleware: 401 without the header, 403 when the query returns no
\* row, 500 when the query throws, else next() with req.emisor_id of the first
\* row.  (The UPDATE of last_used_at is not awaited and touches no column read
\* anywhere.)
apiKeyMiddleware ==
    /\ llamada.fn = "apiKeyMiddleware"
    /\ llamada.fase = "call"
    /\ LET apiKey == llamada.args[1] IN
       \E ret \in [status : {"401", "403", "500", "next"}, emisor_id : Emisores \cup {"none"}] :
          /\ IF apiKey = "" THEN ret = [status |-> "401", emisor_id |-> "none"]
             ELSE \/ ret = [status |-> "500", emisor_id |-> "none"]
                  \/ /\ FilasDeLlave(apiKey) = {}
                     /\ ret = [status |-> "403", emisor_id |-> "none"]
                  \/ /\ FilasDeLlave(apiKey) # {}
                     /\ ret = [status |-> "next",
                               emisor_id |-> api_keys[CHOOSE i \in FilasDeLlave(apiKey) :
                                   \A j \in FilasDeLlave(apiKey) : i <= j].emisor_id]
          /\ llamada' = [llamada EXCEPT !.fase = "return", !.ret = ret]
    /\ UNCHANGED <<admin, webhookUrl, saldo_inicial, emisores, balance, p12, credLock,
                   secuencial_actual, ptoLock, invoices, objects, transaction_logs, inv,
                   firma, envio, autz, debitos, webhooks, emisores_ambiente>>

NextLlaves ==
    \/ \E e \in Emisores : CrearLlave(e)
    \/ \E e \in Emisores, id \in 1..MaxLlaves : RevocarLlave(e, id)
    \/ \E apiKey \in Cabeceras : RecibeApiKey(apiKey)
    \/ apiKeyMiddleware

SpecLlaves == InitCuentas /\ [][NextLlaves]_vars

\* ------------------------------------------------ /keys routes (requests)
\* a DELETE /keys/:id of a user of issuer e (auth has set req.emisor_id)
RecibeDeleteKey(e, id) ==
    /\ llamada.fase # "call"
    /\ llamada' = [fn |-> "DELETE /keys/:id", args |-> <<e, id>>, fase |-> "call", ret |-> <<>>]
    /\ UNCHANGED <<admin, webhookUrl, saldo_inicial, emisores, balance, p12, credLock,
                   secuencial_actual, ptoLock, invoices, objects, transaction_logs, inv,
                   firma, envio, autz, debitos, webhooks>>

\* Variant of FilasARevocar without the condition emisor_id = $2.
FilasARevocarSinEmisor(id, emisor_id) ==
    {i \in 1..Len(api_keys) : i = id}

\* the rows of UPDATE api_keys ... WHERE id = $1 AND emisor_id = $2
FilasARevocar(id, emisor_id) ==
    {i \in 1..Len(api_keys) : i = id /\ api_keys[i].emisor_id = emisor_id}

\* The handler: the UPDATE sets revoked on the rows it matches; rowCount 0 is
\* answered 404, a throw of the query 500, otherwise 200.
DeleteKey ==
    /\ llamada.fn = "DELETE /keys/:id"
    /\ llamada.fase = "call"
    /\ LET e == llamada.args[1]
           result == FilasARevocar(llamada.args[2], e)
       IN  \/ /\ llamada' = [llamada EXCEPT !.fase = "return", !.ret = <<"500">>]
              /\ UNCHANGED api_keys
           \/ /\ api_keys' = [i \in 1..Len(api_keys) |->
                                 IF i \in result THEN [api_keys[i] EXCEPT !.revoked = TRUE]
                                 ELSE api_keys[i]]
              /\ llamada' = [llamada EXCEPT !.fase = "return",
                                 !.ret = IF Cardinality(result) = 0 THEN <<"404">> ELSE <<"200">>]
    /\ UNCHANGED <<emisores_ruc, establecimientos, puntos_emision, user_credits, profiles, act,
                   p12_path, certificates, emisores_ambiente, webhookUrl, saldo_inicial, emisores,
                   balance, p12, credLock, secuencial_actual, ptoLock, invoices, objects,
                   transaction_logs, inv, firma, envio, autz, debitos, webhooks>>

\* a GET /keys of a user of issuer e
RecibeGetKeys(e) ==
    /\ llamada.fase # "call"
    /\ llamada' = [fn |-> "GET /keys", args |-> <<e>>, fase |-> "call", ret |-> <<>>]
    /\ UNCHANGED <<admin, webhookUrl, saldo_inicial, emisores, balance, p12, credLock,
                   secuencial_actual, ptoLock, invoices, objects, transaction_logs, inv,
                   firma, envio, autz, debitos, webhooks>>

\* SELECT id, ... FROM api_keys WHERE emisor_id = $1 AND revoked = false ORDER
\* BY created_at DESC: the ids of the rows, the newest first
FilasListadas(emisor_id) ==
    LET ids == SelectSeq([i \in 1..Len(api_keys) |-> i],
                         LAMBDA i : api_keys[i].emisor_id = emisor_id /\ ~api_keys[i].revoked)
    IN  [k \in 1..Len(ids) |-> ids[Len(ids) + 1 - k]]

\* The handler: 200 with the rows, or 500 when the query throws.
GetKeys ==
    /\ llamada.fn = "GET /keys"
    /\ llamada.fase = "call"
    /\ \/ llamada' = [llamada EXCEPT !.fase = "return", !.ret = <<"500">>]
       \/ llamada' = [llamada EXCEPT !.fase = "return",
                         !.ret = <<"200", FilasListadas(llamada.args[1])>>]
    /\ UNCHANGED <<admin, webhookUrl, saldo_inicial, emisores, balance, p12, credLock,
                   secuencial_actual, ptoLock, invoices, objects, transaction_logs, inv,
                   firma, envio, autz, debitos, webhooks>>

\* The keys of two issuers: created, listed, revoked through the route and
\* presented to the middleware.
NextRutasLlaves ==
    \/ \E e \in Emisores : CrearLlave(e)
    \/ \E e \in Emisores, id \in 1..(MaxLlaves + 1) : RecibeDeleteKey(e, id)
    \/ DeleteKey
    \/ \E e \in Emisores : RecibeGetKeys(e)
    \/ GetKeys
    \/ \E apiKey \in Cabeceras : RecibeApiKey(apiKey)
    \/ apiKeyMiddleware

SpecRutasLlaves == InitCuentas /\ [][NextRutasLlaves]_vars

\* ------------------------------------------------ POST /admin/topup (request)
N8N_API_KEY == "n8n"                       \* process.env.N8N_API_KEY
CabecerasN8n == {N8N_API_KEY, "otra", ""}  \* x-n8n-key ("" absent or empty)
RUC3 == <<1, 1, 1, 1, 1, 1, 1, 1, 1, 1, 0, 0, 1>>     \* a RUC nobody registered
RucsTopup == {RUC, RUC2, RUC3, <<>>}       \* body.ruc (<<>>: absent or empty)
Amounts == Montos \cup {0}                 \* body.amount (0: absent or 0)

\* serviceMiddleware
serviceMiddleware(n8nKey) ==
    IF n8nKey = "" \/ n8nKey # N8N_API_KEY THEN "403" ELSE "next"

RecibeTopup(n8nKey, r, amount) ==
    /\ llamada.fase # "call"
    /\ llamada' = [fn |-> "POST /admin/topup", args |-> <<n8nKey, r, amount>>,
                   fase |-> "call", ret |-> <<>>]
    /\ UNCHANGED <<admin, webhookUrl, saldo_inicial, emisores, balance, p12, credLock,
                   secuencial_actual, ptoLock, invoices, objects, transaction_logs, inv,
                   firma, envio, autz, debitos, webhooks, emisores_ambiente>>

\* The whole handler behind serviceAuth: 403 from the middleware; 400 without
\* ruc or amount; BEGIN, SELECT id FROM emisores WHERE ruc, throw if no row,
\* the two statements of TopupTx, COMMIT and 200; any throw goes to ROLLBACK
\* and 500.
AdminTopup ==
    /\ llamada.fn = "POST /admin/topup"
    /\ llamada.fase = "call"
    /\ LET n8nKey == llamada.args[1]
           r      == llamada.args[2]
           amount == llamada.args[3]
           responde(status) == llamada' = [llamada EXCEPT !.fase = "return", !.ret = status]
       IN
       IF serviceMiddleware(n8nKey) = "403"
         THEN responde("403") /\ UNCHANGED <<balance, transaction_logs>>
       ELSE IF r = <<>> \/ amount = 0
         THEN responde("400") /\ UNCHANGED <<balance, transaction_logs>>
       ELSE \/ /\ responde("500")             \* no such RUC, or a statement throws
               /\ UNCHANGED <<balance, transaction_logs>>
            \/ \E e \in emisores :
                  /\ emisores_ruc[e] = r
                  /\ Len(transaction_logs) < MaxRecargas
                  /\ TopupTx(e, amount)
                  /\ responde("200")
    /\ UNCHANGED <<admin, webhookUrl, saldo_inicial, emisores, p12, credLock,
                   secuencial_actual, ptoLock, invoices, objects, inv,
                   firma, envio, autz, debitos, webhooks>>

NextRecarga ==
    \/ \E n8nKey \in CabecerasN8n, r \in RucsTopup, amount \in Amounts : RecibeTopup(n8nKey, r, amount)
    \/ AdminTopup

SpecRecarga == InitCuentas /\ [][NextRecarga]_vars

\* ------------------------------------------------ POST /auth/activar-ruc
RucsAlta == {RUC, RUC2, SubSeq(RUC, 1, 10)}     \* body.ruc

\* The emisores table as the data model describes it: no uniqueness of ruc
\* is declared, so the INSERT of a second row with a RUC already stored succeeds.
emisores_ruc_unique == FALSE

\* Validation (400); BEGIN; SELECT id FROM emisores WHERE ruc = $1, which
\* sees committed rows only; the 409 exit returns inside the try, so the
\* finally releases the client with its transaction still open ("leaked").
ActivarBegin(a, uid, r, datos) ==
    /\ act[a].pc = "idle"
    /\ IF Len(r) # 13 \/ ~datos
         THEN act' = [act EXCEPT ![a] = [pc |-> "idle", uid |-> uid, ruc |-> r, status |-> "400"]]
       ELSE IF \E e \in emisores : emisores_ruc[e] = r
         THEN act' = [act EXCEPT ![a] = [pc |-> "leaked", uid |-> uid, ruc |-> r, status |-> "409"]]
       ELSE act' = [act EXCEPT ![a] = [pc |-> "tx", uid |-> uid, ruc |-> r, status |-> "none"]]
    /\ UNCHANGED <<api_keys, emisores_ruc, establecimientos, puntos_emision, user_credits,
                   profiles, p12_path, certificates, emisores_ambiente, llamada, webhookUrl, saldo_inicial, emisores, balance, p12,
                   credLock, secuencial_actual, ptoLock, invoices, objects,
                   transaction_logs, inv, firma, envio, autz, debitos, webhooks>>

\* The pooled connection released inside a transaction is closed by the pool's
\* idle timeout, or its transaction is ended by the next handler that uses it.
ActivarLeakEnds(a) ==
    /\ act[a].pc = "leaked"
    /\ act' = [act EXCEPT ![a].pc = "idle"]
    /\ UNCHANGED <<api_keys, emisores_ruc, establecimientos, puntos_emision, user_credits,
                   profiles, p12_path, certificates, emisores_ambiente, llamada, webhookUrl, saldo_inicial, emisores, balance, p12,
                   credLock, secuencial_actual, ptoLock, invoices, objects,
                   transaction_logs, inv, firma, envio, autz, debitos, webhooks>>

\* Steps 2 to 5 and COMMIT: INSERT INTO emisores RETURNING id (a new id),
\* establecimientos '001', puntos_emision '100' with secuencial_actual 0, the
\* profile upsert, user_credits with balance 50; the rows become visible
\* together at COMMIT (201).  Any throw goes to ROLLBACK and 500.
ActivarCommit(a) ==
    /\ act[a].pc = "tx"
    /\ \/ /\ act' = [act EXCEPT ![a].pc = "idle", ![a].status = "500"]
          /\ UNCHANGED <<emisores, emisores_ruc, establecimientos, puntos_emision,
                         secuencial_actual, profiles, user_credits, balance>>
       \/ \E e \in Emisores \ emisores :
             /\ emisores_ruc_unique => \A o \in emisores : emisores_ruc[o] # act[a].ruc
             /\ emisores' = emisores \cup {e}
             /\ emisores_ruc' = [emisores_ruc EXCEPT ![e] = act[a].ruc]
             /\ establecimientos' = establecimientos \cup {<<e, "001">>}
             /\ puntos_emision' = puntos_emision \cup {<<e, "001", "100", e>>}
             /\ secuencial_actual' = [secuencial_actual EXCEPT ![e] = 0]
             /\ profiles' = [profiles EXCEPT ![act[a].uid] = e]
             /\ user_credits' = user_credits \cup {e}
             /\ balance' = [balance EXCEPT ![e] = CORTESIA]
             /\ act' = [act EXCEPT ![a].pc = "idle", ![a].status = "201"]
    /\ UNCHANGED <<api_keys, p12_path, certificates, emisores_ambiente, llamada, webhookUrl, saldo_inicial, p12,
                   credLock, ptoLock, invoices, objects,
                   transaction_logs, inv, firma, envio, autz, debitos, webhooks>>

\* nothing registered yet
InitAlta ==
    /\ Parado
    /\ llamada = SinLlamada

NextAlta ==
    \/ \E a \in Acts, uid \in Uids, r \in RucsAlta, datos \in BOOLEAN : ActivarBegin(a, uid, r, datos)
    \/ \E a \in Acts : ActivarCommit(a)
    \/ \E a \in Acts : ActivarLeakEnds(a)

SpecAlta == InitAlta /\ [][NextAlta]_vars

\* ------------------------------------------------ POST /emitter/upload-p12
\* req.file: a PKCS#12 container protected by clave, whose signing certificate
\* carries ruc (NULL: none can be extracted) and whose validity.notAfter is
\* still ahead ("valid") or already behind ("expired"); SinArchivo: no file sent.
SinArchivo == [clave |-> "", vence |-> "none", ruc |-> NULL]
Archivos == [clave : {"pw"}, vence : {"valid", "expired"}, ruc : {RUC, RUC2, NULL}]
                \cup {SinArchivo}
Passwords == {"pw", "mala", ""}                 \* body.password ("": none sent)

\* pkcs12FromAsn1 throws on a wrong password (caught: ok false); no RUC in
\* the certificate: ok false; a RUC other than the issuer's: ok false;
\* otherwise ok true with expiration = notAfter, whatever the date is.
validarP12(p12Buffer, password, rucEmisor) ==
    IF password # p12Buffer.clave THEN [ok |-> FALSE, expiration |-> "none"]
    ELSE IF p12Buffer.ruc = NULL THEN [ok |-> FALSE, expiration |-> "none"]
    ELSE IF rucEmisor # NULL /\ p12Buffer.ruc # rucEmisor THEN [ok |-> FALSE, expiration |-> "none"]
    ELSE [ok |-> TRUE, expiration |-> p12Buffer.vence]

\* Date.now() of an upload: later than the time of every earlier upload
Ahora ==
    LET usados == {o[2] : o \in certificates \cup {p12_path[e] : e \in {x \in Emisores : p12_path[x] # NULL}}}
    IN  IF usados = {} THEN 1 ELSE 1 + CHOOSE n \in usados : \A m \in usados : m <= n

RecibeP12(uid, file, password) ==
    /\ llamada.fase # "call"
    /\ llamada' = [fn |-> "POST /emitter/upload-p12", args |-> <<uid, file, password>>,
                   fase |-> "call", ret |-> <<>>]
    /\ UNCHANGED <<admin, webhookUrl, saldo_inicial, emisores, balance, p12, credLock,
                   secuencial_actual, ptoLock, invoices, objects, transaction_logs, inv,
                   firma, envio, autz, debitos, webhooks, emisores_ambiente>>

\* The whole handler behind authMiddleware (req.emisor_id is the profile's
\* issuer): 400 without file or password; SELECT ruc, p12_path; 400 when
\* validarP12 is not ok; the old object is deleted (a failure is swallowed);
\* the new object is uploaded; the three columns are updated; 200.  Any throw
\* is answered 500 with what was done before it left in place.
UploadP12 ==
    /\ llamada.fn = "POST /emitter/upload-p12"
    /\ llamada.fase = "call"
    /\ LET emisorId == profiles[llamada.args[1]]
           file     == llamada.args[2]
           password == llamada.args[3]
           responde(status) == llamada' = [llamada EXCEPT !.fase = "return", !.ret = status]
       IN
       IF file = SinArchivo \/ password = ""
         THEN responde("400") /\ UNCHANGED <<certificates, p12_path, p12>>
       ELSE IF emisorId = "none"               \* rows[0] undefined: TypeError
         THEN responde("500") /\ UNCHANGED <<certificates, p12_path, p12>>
       ELSE \/ responde("500") /\ UNCHANGED <<certificates, p12_path, p12>>    \* the SELECT throws
            \/ LET val == validarP12(file, password, emisores_ruc[emisorId]) IN
               IF ~val.ok
                 THEN responde("400") /\ UNCHANGED <<certificates, p12_path, p12>>
               ELSE \E borrado \in BOOLEAN :
                      LET resto == IF p12_path[emisorId] # NULL /\ borrado
                                     THEN certificates \ {p12_path[emisorId]}
                                     ELSE certificates
                          fileName == <<emisores_ruc[emisorId], Ahora>>
                      IN  /\ Ahora <= MaxSubidas
                          /\ \/ /\ certificates' = resto                  \* uploadFile throws
                                /\ responde("500")
                                /\ UNCHANGED <<p12_path, p12>>
                             \/ /\ certificates' = resto \cup {fileName}  \* the UPDATE throws
                                /\ responde("500")
                                /\ UNCHANGED <<p12_path, p12>>
                             \/ /\ certificates' = resto \cup {fileName}
                                /\ p12_path' = [p12_path EXCEPT ![emisorId] = fileName]
                                /\ p12' = [p12 EXCEPT ![emisorId] = val.expiration]
                                /\ responde("200")
    /\ UNCHANGED <<api_keys, emisores_ruc, establecimientos, puntos_emision, user_credits,
                   profiles, act, webhookUrl, saldo_inicial, emisores, balance, credLock,
                   secuencial_actual, ptoLock, invoices, objects, transaction_logs, inv,
                   firma, envio, autz, debitos, webhooks, emisores_ambiente>>

NextFirma ==
    \/ \E uid \in Uids, file \in Archivos, password \in Passwords : RecibeP12(uid, file, password)
    \/ UploadP12

SpecFirma == InitCuentas /\ [][NextFirma]_vars

\* req.body of POST /invoices/emit: cliente and items present or not, and the
\* punto_emision code named (establecimiento left to its default '001')
CuerposEmit == [completo : BOOLEAN, punto_emision : Codigos]
JSON_stringify(body) == <<"json", body>>

RecibeEmit(uid, body) ==
    /\ llamada.fase # "call"
    /\ llamada' = [fn |-> "POST /invoices/emit", args |-> <<uid, body>>,
                   fase |-> "call", ret |-> <<>>]
    /\ UNCHANGED <<admin, webhookUrl, saldo_inicial, emisores, balance, p12, credLock,
                   secuencial_actual, ptoLock, invoices, objects, transaction_logs, inv,
                   firma, envio, autz, debitos, webhooks, emisores_ambiente>>

\* The whole handler behind authMiddleware (req.emisor_id is the profile's
\* issuer): 403 without issuer; 400 without cliente or items; 400 without
\* p12_path; 402 with balance <= 0; 400 with the certificate expired; 404 when
\* the caller owns no such emission point; otherwise one INSERT of a PENDIENTE
\* row with a temporary key and JSON.stringify(req.body), and 200.  A throw of
\* any statement is answered 500.
EmitirFactura ==
    /\ llamada.fn = "POST /invoices/emit"
    /\ llamada.fase = "call"
    /\ LET emisorId == profiles[llamada.args[1]]
           body     == llamada.args[2]
           responde(status) == llamada' = [llamada EXCEPT !.fase = "return", !.ret = status]
       IN
       IF emisorId = "none" THEN responde("403") /\ UNCHANGED invoices
       ELSE IF ~body.completo THEN responde("400") /\ UNCHANGED invoices
       ELSE \/ responde("500") /\ UNCHANGED invoices
            \/ IF p12_path[emisorId] = NULL THEN responde("400") /\ UNCHANGED invoices
               ELSE IF balance[emisorId] <= 0 THEN responde("402") /\ UNCHANGED invoices
               ELSE IF p12[emisorId] = "expired" THEN responde("400") /\ UNCHANGED invoices
               ELSE IF ptoRes(emisorId, "001", body.punto_emision) = {}
                      THEN responde("404") /\ UNCHANGED invoices
               ELSE /\ Len(invoices) < MaxInvoices
                    /\ \E fila \in ptoRes(emisorId, "001", body.punto_emision) :
                          invoices' = Append(invoices, [FilaPendiente(emisorId) EXCEPT
                                                          !.punto_emision_id = fila[4],
                                                          !.input_json = JSON_stringify(body)])
                    /\ responde("200")
    /\ UNCHANGED <<admin, webhookUrl, saldo_inicial, emisores, balance, p12, credLock,
                   secuencial_actual, ptoLock, objects, transaction_logs, inv,
                   firma, envio, autz, debitos, webhooks>>

\* One issuer with any credential and balance, and a user without issuer.
InitEncolar ==
    /\ emisores = {"e1"}
    /\ balance \in {DeRegistrados(b, 0) : b \in 0..MaxInitBalance}
    /\ p12 \in {DeRegistrados(c, "none") : c \in {"none", "valid", "expired"}}
    /\ secuencial_actual = [e \in Emisores |-> 0]
    /\ invoices = <<>>
    /\ objects = {}
    /\ webhookUrl = FALSE
    /\ Quiescent
    /\ llamada = SinLlamada

NextEncolar ==
    \/ \E uid \in Uids, body \in CuerposEmit : RecibeEmit(uid, body)
    \/ EmitirFactura

SpecEncolar == InitEncolar /\ [][NextEncolar]_vars

\* ------------------------------------------------ POST /structure/issuing-points
\* An issuer adds to its establishment 001 a point with a code it does not
\* use yet: INSERT INTO puntos_emision (..., secuencial_actual) VALUES (..., 0).
CrearPunto(e, codigo) ==
    /\ e \in emisores
    /\ ptoRes(e, "001", codigo) = {}
    /\ \A p \in puntos_emision : p[4] # "p3"
    /\ puntos_emision' = puntos_emision \cup {<<e, "001", codigo, "p3">>}
    /\ secuencial_actual' = [secuencial_actual EXCEPT !["p3"] = 0]
    /\ UNCHANGED <<api_keys, emisores_ruc, establecimientos, user_credits, profiles, act,
                   p12_path, certificates, emisores_ambiente, llamada, webhookUrl, saldo_inicial, emisores,
                   balance, p12, credLock, ptoLock, invoices, objects, transaction_logs,
                   inv, firma, envio, autz, debitos, webhooks>>

\* Two issuers able to issue, each with the point 001/100 of its activation.
InitPuntos ==
    /\ emisores = Emisores
    /\ balance = [e \in Emisores |-> 1]
    /\ p12 = [e \in Emisores |-> "valid"]
    /\ secuencial_actual = [p \in PuntoIds |-> 0]
    /\ invoices = <<>>
    /\ objects = {}
    /\ webhookUrl = FALSE
    /\ Quiescent
    /\ llamada = SinLlamada

\* Both issuance routes (the accepted requests of POST /invoices/emit) and the
\* route that adds a point.
NextPuntos ==
    \/ \E e \in Emisores, c \in Codigos : CrearPunto(e, c)
    \/ \E r \in Reqs, e \in Emisores : InvoiceBegin(r, e)
    \/ \E r \in Reqs, c \in Codigos : InvoiceAlloc(r, c)
    \/ \E r \in Reqs : InvoiceUploadXml(r)
    \/ \E r \in Reqs : InvoiceUploadPdf(r)
    \/ \E r \in Reqs : InvoiceCommit(r)
    \/ \E e \in Emisores, c \in Codigos : Emit(e, c)

SpecPuntos == InitPuntos /\ [][NextPuntos]_vars

\* ======================================================== properties
Max0(x) == IF x < 0 THEN 0 ELSE x

\* rows inserted by POST /integrations/invoice (it stores no client_input_data)
Exitos(e) == Cardinality({i \in Ids : invoices[i].emisor = e /\ ~invoices[i].client_input_data})

\* rows of issuer e that hold an allocated sequential, and the value allocated
\* (the one embedded in clave_acceso; firmarYEnviarLote leaves the column NULL)
Comprometidas(e) == {i \in Ids : invoices[i].emisor = e /\ invoices[i].estado # "PENDIENTE"}
Asignado(i) == invoices[i].clave_acceso[2]

\* C1: with no top-up, the synchronous issuances that succeeded against an
\* issuer that started with balance B number at most B, and once no request is
\* in progress the stored balance is max(0, B - successes).
C1_Original ==
    \A e \in emisores :
        transaction_logs = <<>> =>
            /\ Exitos(e) <= saldo_inicial[e]
            /\ (\A r \in Reqs : inv[r].pc = "idle")
                   => balance[e] = Max0(saldo_inicial[e] - Exitos(e))

\* C2: the sequentials held by the committed invoices of an emission point are
\* pairwise distinct and are exactly 1..secuencial_actual (the counter starts
\* at 0), and every step leaves secuencial_actual unchanged or advances it by
\* exactly 1, the latter exactly when one more allocation is committed.
C2_Secuenciales ==
    /\ [](\A e \in emisores :
            /\ \A i, j \in Comprometidas(e) : i # j => Asignado(i) # Asignado(j)
            /\ {Asignado(i) : i \in Comprometidas(e)} = 1..secuencial_actual[e])
    /\ [][\A e \in emisores :
            /\ secuencial_actual'[e] - secuencial_actual[e] \in {0, 1}
            /\ secuencial_actual'[e] - secuencial_actual[e]
                 = Cardinality(Comprometidas(e)') - Cardinality(Comprometidas(e))]_vars

\* Both routes have committed an allocation on the same emission point.
C2_Witness ==
    \E i, j \in Ids :
        /\ invoices[i].estado = "FIRMADO" /\ ~invoices[i].client_input_data
        /\ invoices[j].estado = "FIRMADO" /\ invoices[j].client_input_data
        /\ invoices[i].emisor = invoices[j].emisor
        /\ secuencial_actual[invoices[i].emisor] = 2

\* C3: every issuer's credit balance is >= 0 in every reachable state.
C3_Original == \A e \in emisores : balance[e] >= 0

\* C4: an invoice is never debited twice, and an invoice that is AUTORIZADO
\* with no debit still pending has been debited exactly once.
C4_Original ==
    \A i \in Ids :
        /\ debitos[i] <= 1
        /\ (/\ invoices[i].estado = "AUTORIZADO"
            /\ \A w \in Runs : ~(autz[w].pc = "debito" /\ Head(autz[w].rows) = i))
               => debitos[i] = 1

\* C5: a row that is AUTORIZADO or RECHAZADO keeps its estado in every step.
C5_Original ==
    [][\A i \in Ids :
          invoices[i].estado \in {"AUTORIZADO", "RECHAZADO"}
              => invoices'[i].estado = invoices[i].estado]_vars

\* C6: a step inserts an invoice row only for an issuer whose credential is
\* present and unexpired.
C6_Original ==
    [][Len(invoices') > Len(invoices)
          => p12[invoices'[Len(invoices')].emisor] = "valid"]_vars

\* C7: every XML/PDF object of an issuance belongs to a row that left
\* PENDIENTE with that access key or to an issuance still in progress: a
\* rolled-back issuance leaves no object under its key.
C7_Original ==
    \A o \in objects :
        \/ \E i \in Ids : /\ invoices[i].estado # "PENDIENTE"
                          /\ invoices[i].clave_acceso = <<o[2], o[3]>>
        \/ \E r \in Reqs : inv[r].pc \in {"xml", "pdf", "ins"} /\ inv[r].e = o[2] /\ inv[r].sec = o[3]
        \/ firma.pc # "idle" /\ invoices[firma.id].emisor = o[2] /\ firma.sec = o[3]

\* C8 (as claimed): the estado of every row is one of the six states.
C8_Original == \A i \in Ids : invoices[i].estado \in ESTADOS

\* C8 (amended): the estado of every row is one of the six states or a state
\* other than NO AUTORIZADO that the authorization endpoint returned.
C8_Estados ==
    \A i \in Ids : invoices[i].estado \in ESTADOS \cup (RespAutorizacion \ {"NO AUTORIZADO"})

\* The Authorize job stored an authority state that is none of the six.
C8_Witness == \E i \in Ids : invoices[i].estado = "EN PROCESO" /\ invoices[i].mensajes_sri = "EN PROCESO"

Aristas == {<<"PENDIENTE", "FIRMADO">>, <<"FIRMADO", "RECIBIDA">>, <<"FIRMADO", "DEVUELTA">>,
            <<"RECIBIDA", "AUTORIZADO">>, <<"RECIBIDA", "RECHAZADO">>}

\* C9: every change of a row's estado is one of the five forward edges.
C9_Original ==
    [][\A i \in Ids :
          invoices'[i].estado # invoices[i].estado
              => <<invoices[i].estado, invoices'[i].estado>> \in Aristas]_vars

\* C10: a Submit execution POSTs an invoice to the reception endpoint only
\* while the row is still FIRMADO.
C10_Original ==
    [][\A w \in Runs :
          (envio[w].pc = "lote" /\ envio'[w].pc = "resp")
              => invoices[Head(envio[w].rows).id].estado = "FIRMADO"]_vars

\* ids a run of the job that selects `estado` would read
Seleccion(estado) == {SelectEstado(estado)[k] : k \in 1..Len(SelectEstado(estado))}

TrasAviso(id, estado) == {webhooks, webhooks (+) SetToBag({<<id, estado>>})}

XmlAutorizado(i) == Obj("authorized", invoices[i].emisor, invoices[i].clave_acceso[2], "xml")

\* C13: the step that makes a row AUTORIZADO starts from a state in which the
\* object authorized/<ruc>/<clave>.xml is already stored, and leaves the row
\* with xml_path naming that object and fecha_autorizacion recorded; and in
\* every state the xml_path of an AUTORIZADO row names a stored object.
C13_Autorizado ==
    /\ [](\A i \in Ids : invoices[i].estado = "AUTORIZADO"
                             => PathObj(invoices[i].xml_path, "xml") \in objects)
    /\ [][\A w \in Runs :
            LET id == Head(autz[w].rows) IN
            (autz[w].resp = "AUTORIZADO" /\ autz[w].pc # "debito" /\ autz'[w].pc = "debito")
               => /\ XmlAutorizado(id) \in objects
                  /\ invoices'[id].estado = "AUTORIZADO"
                  /\ PathObj(invoices'[id].xml_path, "xml") = XmlAutorizado(id)
                  /\ invoices'[id].fecha_autorizacion]_vars

\* A row was authorized: it points at its authorized XML, which is stored next
\* to the signed XML it was submitted with.
C13_Witness ==
    \E i \in Ids : /\ invoices[i].estado = "AUTORIZADO"
                    /\ invoices[i].xml_path[1] = "authorized"
                    /\ invoices[i].fecha_autorizacion
                    /\ {XmlAutorizado(i), Obj("raiz", invoices[i].emisor, invoices[i].secuencial, "xml")}
                          \subseteq objects

Eventos == (1..MaxInvoices) \X (ESTADOS \cup RespAutorizacion)

\* C15: no <<invoice, estado>> event is POSTed to the webhook more than once,
\* and a POST reports an estado that the run sending it has stored in the row
\* (in the same step, or for AUTORIZADO in the step before the debit).
C15_Original ==
    /\ [](\A ev \in Eventos : CopiesIn(ev, webhooks) <= 1)
    /\ [][\A ev \in Eventos :
            CopiesIn(ev, webhooks') > CopiesIn(ev, webhooks)
               => /\ ev[1] \in Ids
                  /\ \/ invoices'[ev[1]].estado = ev[2]
                     \/ /\ ev[2] = "AUTORIZADO"
                        /\ \E w \in Runs : autz[w].pc = "debito" /\ Head(autz[w].rows) = ev[1]]_vars

\* row i is the one run w of the Submit / Authorize job is working on
EnvioEn(w, i) == envio[w].pc # "idle" /\ Head(envio[w].rows).id = i
AutzEn(w, i)  == autz[w].pc # "idle" /\ Head(autz[w].rows) = i

\* C16: a tick's SELECT returns only rows that are in the state its job
\* selects, and a step of the jobs changes a row, debits for it, stores its
\* authorized XML or POSTs an event about it only if a run has that row at hand
\* from its SELECT: a tick started after a row left the job's state changes
\* no field of the row, no balance, no object and sends no webhook for it.
C16_Replay ==
    [][/\ \A w \in Runs :
            /\ (envio[w].pc = "idle" /\ envio'[w].pc # "idle")
                  => \A k \in 1..Len(envio'[w].rows) :
                        invoices[envio'[w].rows[k].id].estado = "FIRMADO"
            /\ (autz[w].pc = "idle" /\ autz'[w].pc # "idle")
                  => \A k \in 1..Len(autz'[w].rows) :
                        invoices[autz'[w].rows[k]].estado = "RECIBIDA"
       /\ \A i \in Ids :
            (\/ invoices'[i] # invoices[i]
             \/ debitos'[i] # debitos[i]
             \/ (XmlAutorizado(i) \in objects' /\ XmlAutorizado(i) \notin objects)
             \/ \E ev \in Eventos : ev[1] = i /\ CopiesIn(ev, webhooks') # CopiesIn(ev, webhooks))
               => \E w \in Runs : EnvioEn(w, i) \/ AutzEn(w, i)
       /\ balance' # balance => \E i \in Ids : debitos'[i] # debitos[i]]_vars

\* The row has been advanced out of FIRMADO and notified, no Submit run holds
\* it and the Submit SELECT is empty: a replayed Submit tick returns at once.
C16_Witness ==
    \E i \in Ids : /\ invoices[i].estado = "RECIBIDA"
                    /\ CopiesIn(<<i, "RECIBIDA">>, webhooks) = 1
                    /\ \A w \in Runs : envio[w].pc = "idle"
                    /\ Seleccion("FIRMADO") = {}

\* C17: every invoice that is PENDIENTE eventually leaves PENDIENTE signed
\* (FIRMADO or a later state), while the scheduler keeps running the jobs.
C17_Original ==
    \A i \in 1..MaxInvoices :
        (i \in Ids /\ invoices[i].estado = "PENDIENTE")
            ~> (i \in Ids /\ invoices[i].estado # "PENDIENTE")

\* the reference rule: weights 2,3,4,5,6,7 repeating from the rightmost digit
\* (k = 0) leftwards
Peso(k) == 2 + (k % 6)
RECURSIVE SumaReferencia(_, _)
SumaReferencia(cadena, k) ==
    IF k >= Len(cadena) THEN 0
    ELSE cadena[Len(cadena) - k] * Peso(k) + SumaReferencia(cadena, k + 1)
DigitoReferencia(cadena) ==
    LET v == 11 - (SumaReferencia(cadena, 0) % 11) IN
    CASE v = 11 -> 0 [] v = 10 -> 1 [] OTHER -> v

\* C19: for every string of decimal digits modulo11 returns the check digit of
\* the reference rule, and the result is a single digit 0..9.
C19_Modulo11 ==
    (llamada.fn = "modulo11" /\ llamada.fase = "return")
        => /\ llamada.ret = DigitoReferencia(llamada.args[1])
           /\ llamada.ret \in 0..9

\* modulo11 returned 1 for a string long enough for the weights to start over
\* and whose v is 10.
C19_Witness ==
    /\ llamada.fn = "modulo11" /\ llamada.fase = "return"
    /\ Len(llamada.args[1]) >= 7
    /\ 11 - (SumaReferencia(llamada.args[1], 0) % 11) = 10
    /\ llamada.ret = 1

\* 49 decimal digits, the last being the modulo-11 check digit of the others
EsClaveAcceso(k) ==
    /\ Len(k) = 49
    /\ \A j \in 1..Len(k) : k[j] \in 0..9
    /\ k[49] = DigitoReferencia(SubSeq(k, 1, 48))

\* C18: the clave_acceso of every row that is not PENDIENTE is 49 decimal
\* digits ending in the modulo-11 check digit of the first 48, and whatever
\* generarClaveAcceso returns (when it does not throw) is such a key.
C18_ClaveAcceso ==
    /\ \A i \in Ids : invoices[i].estado # "PENDIENTE" => EsClaveAcceso(invoices[i].clave_acceso)
    /\ (llamada.fn = "generarClaveAcceso" /\ llamada.fase = "return") => EsClaveAcceso(llamada.ret)

\* A key was returned although the RUC carried a non-digit and the sequential
\* was not padded, and the row inserted with it follows a PENDIENTE row.
C18_Witness ==
    /\ llamada.fn = "generarClaveAcceso" /\ llamada.fase = "return"
    /\ llamada.args[3] # limpiar(llamada.args[3])
    /\ Len(llamada.args[6]) < 9
    /\ \E i, j \in Ids : /\ invoices[i].estado = "PENDIENTE"
                          /\ invoices[j].estado = "FIRMADO"
                          /\ invoices[j].clave_acceso = llamada.ret

\* C20: on the two-decimal values calcularTotalesEImpuestos returns,
\* importeTotal = totalSinImpuestos + the sum of the per-tariff tax values, and
\* subtotal_iva + subtotal_0 = totalSinImpuestos.
C20_Original ==
    (llamada.fn = "calcularTotalesEImpuestos" /\ llamada.fase = "return")
        => LET r == llamada.ret IN
           /\ r.totales.importeTotal = r.totales.totalSinImpuestos
                 + SumaCampo(r.totalConImpuestosXml, DOMAIN r.totalConImpuestosXml, "valor")
           /\ r.totales.subtotal_iva + r.totales.subtotal_0 = r.totales.totalSinImpuestos

\* the arguments of the call, under the names the function gives them
ItemsLlamada == llamada.args[1]
\* the line's normalized tariff is none of 0, 5, 12, 15
Desconocida(item) == ~(tarifa(item) % 100 = 0 /\ (tarifa(item) \div 100) \in DOMAIN CODIGOS_IVA)
BaseDe(items, P(_)) ==
    SumaSeq([i \in 1..Len(items) |->
                IF P(items[i]) THEN precioTotalSinImpuesto(items[i]) ELSE 0])
\* where the line's base belongs once unknown tariffs are degraded to 0%
EnFilaCero(item) == Desconocida(item) \/ tarifa(item) = 0
EnFilaIva(item)  == ~EnFilaCero(item)

\* C21: a line whose normalized tariff is none of 0, 5, 12, 15 carries the
\* codes of the 0% row and a tax value of 0, and its base is part of
\* subtotal_0 and not of subtotal_iva.
C21_Original ==
    (llamada.fn = "calcularTotalesEImpuestos" /\ llamada.fase = "return")
        => LET r == llamada.ret IN
           /\ \A i \in 1..Len(ItemsLlamada) :
                 Desconocida(ItemsLlamada[i])
                    => /\ r.detallesXml[i].impuesto.codigo = CODIGOS_IVA[0].codigo
                       /\ r.detallesXml[i].impuesto.codigoPorcentaje = CODIGOS_IVA[0].codigoPorcentaje
                       /\ r.detallesXml[i].impuesto.valor = 0
           /\ r.totales.subtotal_0 = toFixed(BaseDe(ItemsLlamada, EnFilaCero))
           /\ r.totales.subtotal_iva = toFixed(BaseDe(ItemsLlamada, EnFilaIva))

\* key k is stored (as its digest) in a row that is not revoked / that is revoked
Vigente(k)  == \E i \in 1..Len(api_keys) : api_keys[i].key_hash = sha256(k) /\ ~api_keys[i].revoked
Revocada(k) == \E i \in 1..Len(api_keys) : api_keys[i].key_hash = sha256(k) /\ api_keys[i].revoked

\* C22: the middleware lets a request through as issuer E only if a row of E
\* that is not revoked stores the SHA-256 of the key presented; it answers 401
\* when the header is missing and 403 when the key is unknown or revoked (500,
\* the InternalError of every route, when the lookup itself throws); a key that
\* has been revoked is never let through, and no step makes it valid again.
C22_LlaveApi ==
    [][/\ (llamada.fn = "apiKeyMiddleware" /\ llamada.fase = "call" /\ llamada'.fase = "return")
            => LET k == llamada.args[1]
                   r == llamada'.ret
               IN  /\ r.status = "next"
                         => \E i \in 1..Len(api_keys) :
                               /\ api_keys[i].emisor_id = r.emisor_id
                               /\ api_keys[i].key_hash = sha256(k)
                               /\ ~api_keys[i].revoked
                   /\ k = "" <=> r.status = "401"
                   /\ (k # "" /\ ~Vigente(k)) => r.status \in {"403", "500"}
                   /\ r.status = "403" => (k # "" /\ ~Vigente(k))
                   /\ Revocada(k) => r.status # "next"
       /\ \A k \in Llaves : Revocada(k) => (Revocada(k)' /\ ~Vigente(k)')]_vars

\* A key that was issued and then revoked has been presented and refused.
C22_Witness ==
    /\ llamada.fn = "apiKeyMiddleware" /\ llamada.fase = "return"
    /\ llamada.ret.status = "403"
    /\ Revocada(llamada.args[1])
    /\ \E k \in Llaves : Vigente(k)

\* sum of the amounts of the log entries bound to issuer e
RECURSIVE Recargado(_, _)
Recargado(logs, e) ==
    IF logs = <<>> THEN 0
    ELSE (IF Head(logs)[1] = e THEN Head(logs)[2] ELSE 0) + Recargado(Tail(logs), e)

\* C23: a top-up answered 200 carried the right key and the RUC of an issuer,
\* added exactly amount to that issuer's balance and appended exactly one log
\* entry for it; in every state each balance is the initial one plus the
\* amounts logged for the issuer (the change and its entry are there together
\* or not at all); a request that is not answered 200 changes neither, a
\* missing or wrong key is answered 403, and no step modifies or deletes an
\* existing log entry.
C23_Recarga ==
    /\ [](\A e \in emisores : balance[e] = saldo_inicial[e] + Recargado(transaction_logs, e))
    /\ [][/\ SubSeq(transaction_logs', 1, Len(transaction_logs)) = transaction_logs
          /\ (llamada.fn = "POST /admin/topup" /\ llamada.fase = "call" /\ llamada'.fase = "return")
               => LET n8nKey == llamada.args[1]
                      r      == llamada.args[2]
                      amount == llamada.args[3]
                  IN  /\ n8nKey # N8N_API_KEY <=> llamada'.ret = "403"
                      /\ llamada'.ret = "200"
                           => \E e \in emisores :
                                 /\ emisores_ruc[e] = r
                                 /\ balance' = [balance EXCEPT ![e] = @ + amount]
                                 /\ transaction_logs' = Append(transaction_logs, <<e, amount>>)
                      /\ llamada'.ret # "200"
                           => /\ balance' = balance
                              /\ transaction_logs' = transaction_logs
                      /\ (n8nKey = N8N_API_KEY /\ amount # 0 /\ \E e \in emisores : emisores_ruc[e] = r)
                           => llamada'.ret \in {"200", "500"}
                      /\ (n8nKey = N8N_API_KEY /\ r # <<>> /\ amount # 0
                            /\ ~\E e \in emisores : emisores_ruc[e] = r)
                           => llamada'.ret = "500"]_vars

\* Two top-ups have been committed and a third request, with a wrong key, has
\* been refused.
C23_Witness ==
    /\ Len(transaction_logs) = 2
    /\ llamada.fn = "POST /admin/topup" /\ llamada.fase = "return" /\ llamada.ret = "403"
    /\ llamada.args[2] \in {RUC, RUC2} /\ llamada.args[3] # 0

\* the rows activar-ruc creates for one issuer are all there
AltaCompleta(e) ==
    /\ e \in emisores
    /\ <<e, "001">> \in establecimientos
    /\ <<e, "001", "100", e>> \in puntos_emision
    /\ e \in user_credits
\* none of them is there
AltaAusente(e) ==
    /\ e \notin emisores
    /\ \A f \in establecimientos : f[1] # e
    /\ \A f \in puntos_emision : f[1] # e
    /\ e \notin user_credits
    /\ \A u \in Uids : profiles[u] # e

\* C24: an activation of a RUC not yet registered creates one issuer with its
\* establishment 001, its point 100 at secuencial_actual 0 and its ledger, and
\* links the caller's profile, all or nothing; one answered 409 names a RUC
\* already registered and creates nothing; no two issuers share a RUC.
C24_Original ==
    /\ [](/\ \A e \in Emisores : AltaCompleta(e) \/ AltaAusente(e)
          /\ \A e, o \in emisores : e # o => emisores_ruc[e] # emisores_ruc[o])
    /\ [][\A a \in Acts :
            /\ (act'[a].status = "201" /\ act[a].pc = "tx" /\ act'[a].pc = "idle")
                  => \E e \in Emisores \ emisores :
                        /\ emisores' = emisores \cup {e}
                        /\ emisores_ruc'[e] = act[a].ruc
                        /\ secuencial_actual'[e] = 0
                        /\ profiles'[act[a].uid] = e
            /\ (act[a].pc = "idle" /\ act'[a].pc = "leaked")
                  => /\ act'[a].status = "409"
                     /\ \E e \in emisores : emisores_ruc[e] = act'[a].ruc
                     /\ emisores' = emisores /\ establecimientos' = establecimientos
                     /\ puntos_emision' = puntos_emision /\ user_credits' = user_credits
                     /\ profiles' = profiles]_vars

\* C25: an upload whose password does not open the container, whose
\* certificate is expired or whose certificate carries another RUC than the
\* issuer's is answered 400 (500 when the lookup fails) and leaves the three
\* credential columns and the bucket as they were; a credential is stored
\* only if it is valid, unexpired and carries the issuer's RUC.
C25_Original ==
    [][(llamada.fn = "POST /emitter/upload-p12" /\ llamada.fase = "call" /\ llamada'.fase = "return")
         => LET e        == profiles[llamada.args[1]]
                file     == llamada.args[2]
                password == llamada.args[3]
                buena    == /\ file # SinArchivo
                            /\ password = file.clave
                            /\ file.vence = "valid"
                            /\ e # "none"
                            /\ file.ruc = emisores_ruc[e]
            IN  /\ llamada'.ret = "400" => UNCHANGED <<p12_path, p12, certificates>>
                /\ ~buena => /\ llamada'.ret \in {"400", "500"}
                             /\ UNCHANGED <<p12_path, p12, certificates>>
                /\ (p12_path' # p12_path \/ p12' # p12) => buena]_vars

\* C26: in every state, the xml_path and pdf_path of every row in FIRMADO or
\* a later state name objects that exist in the store, and every XML/PDF
\* object that issuance wrote to bucket invoices is named by the xml_path or
\* pdf_path of a committed row (read in the states where no issuance is
\* between its first upload and the end of its transaction).
C26_Original ==
    /\ \A i \in Ids : invoices[i].estado # "PENDIENTE"
           => /\ PathObj(invoices[i].xml_path, "xml") \in objects
              /\ PathObj(invoices[i].pdf_path, "pdf") \in objects
    /\ ((\A r \in Reqs : inv[r].pc \notin {"xml", "pdf", "ins"}) /\ firma.pc = "idle")
         => \A o \in objects : o[1] \in {"raiz", "signed"}
               => \E i \in Ids : o \in {PathObj(invoices[i].xml_path, "xml"),
                                        PathObj(invoices[i].pdf_path, "pdf")}

\* the issuer owns the point id, whose codes are 001 and cod
Propio(e, cod, id) == <<e, "001", cod, id>> \in puntos_emision

\* C27: a POST /integrations/invoice goes past the resolution of its emission
\* point only with a point of its own issuer carrying the codes it named; a
\* request whose resolution fails named a pair its issuer does not own, and
\* that step inserts no row, advances no secuencial_actual and takes no lock;
\* secuencial_actual of a point advances only at the commit of a request of
\* the point's owner that named its codes; and the punto_emision_id of every
\* row inserted (by either issuance route) is a point of the row's issuer.
C27_PuntoPropio ==
    [][/\ \A r \in Reqs :
             /\ (inv[r].pc = "tx" /\ inv'[r].pc = "xml")
                   => Propio(inv[r].e, inv'[r].cod, inv'[r].pto)
             /\ (inv[r].pc = "tx" /\ inv'[r].pc = "idle" /\ inv'[r].pto = "none")
                   => /\ \A id \in PuntoIds : ~Propio(inv[r].e, inv'[r].cod, id)
                      /\ invoices' = invoices
                      /\ secuencial_actual' = secuencial_actual
                      /\ ptoLock' = ptoLock
       /\ \A id \in PuntoIds :
             secuencial_actual'[id] # secuencial_actual[id]
                => \E r \in Reqs : /\ inv[r].pc = "ins" /\ inv[r].pto = id
                                   /\ Propio(inv[r].e, inv[r].cod, id)
                                   /\ Len(invoices') = Len(invoices) + 1
       /\ Len(invoices') > Len(invoices)
             => LET fila == invoices'[Len(invoices')]
                IN  \E p \in puntos_emision : p[1] = fila.emisor /\ p[4] = fila.punto_emision_id]_vars

\* Issuer e2 owns a point 001/999 and has a request in progress on it; a
\* request of e1 naming 001/999, which e1 does not own, has failed, and the
\* counter of that point still is 0.
C27_Witness ==
    /\ <<"e2", "001", "999", "p3">> \in puntos_emision
    /\ secuencial_actual["p3"] = 0
    /\ \E r, q \in Reqs :
          /\ inv[r].pc = "idle" /\ inv[r].e = "e1" /\ inv[r].cod = "999" /\ inv[r].pto = "none"
          /\ inv[q].pc = "ins" /\ inv[q].e = "e2" /\ inv[q].pto = "p3"

\* C28: a POST /invoices/emit answered 200 passed every validation and
\* appended exactly one row, in PENDIENTE, of the caller's issuer, with the
\* temporary key and the request body as text in client_input_data; any other
\* answer leaves the table as it was; no answer changes a balance or a
\* secuencial_actual; a caller without issuer is answered 403, one without
\* cliente or items 400, one whose balance is not positive 402, one naming a
\* point it does not own 404 (each of the last two unless an earlier test of
\* the handler answers, or a statement throws: 500).
C28_Encolar ==
    [][(llamada.fn = "POST /invoices/emit" /\ llamada.fase = "call" /\ llamada'.fase = "return")
         => LET e    == profiles[llamada.args[1]]
                body == llamada.args[2]
                ret  == llamada'.ret
                credencial == e # "none" /\ body.completo /\ p12[e] = "valid"
                propio == \E p \in puntos_emision :
                              p[1] = e /\ p[2] = "001" /\ p[3] = body.punto_emision
            IN  /\ balance' = balance
                /\ secuencial_actual' = secuencial_actual
                /\ ret = "200"
                     => /\ credencial /\ balance[e] > 0 /\ propio
                        /\ Len(invoices') = Len(invoices) + 1
                        /\ SubSeq(invoices', 1, Len(invoices)) = invoices
                        /\ LET fila == invoices'[Len(invoices')]
                           IN  /\ fila.estado = "PENDIENTE"
                               /\ fila.emisor = e
                               /\ fila.clave_acceso = <<"PENDING">>
                               /\ fila.client_input_data
                               /\ fila.input_json = <<"json", body>>
                /\ ret # "200" => invoices' = invoices
                /\ e = "none" => ret = "403"
                /\ (e # "none" /\ ~body.completo) => ret = "400"
                /\ (e # "none" /\ body.completo /\ p12[e] # "none" /\ balance[e] <= 0)
                     => ret \in {"402", "500"}
                /\ (credencial /\ balance[e] > 0 /\ ~propio) => ret \in {"404", "500"}
                /\ (credencial /\ balance[e] > 0 /\ propio) => ret \in {"200", "500"}]_vars

\* After one request was accepted and its row inserted, a request naming a
\* point the caller does not own has been answered 404 and the table still
\* holds that one row.
C28_Witness ==
    /\ llamada.fn = "POST /invoices/emit" /\ llamada.fase = "return" /\ llamada.ret = "404"
    /\ Len(invoices) = 1
    /\ invoices[1].estado = "PENDIENTE"
    /\ invoices[1].input_json[2].punto_emision = "100"

\* C29: at most one execution of enviarFacturasAlSRI and at most one of
\* autorizarFacturasSRI is in progress.
C29_Original ==
    /\ Cardinality({w \in Runs : envio[w].pc # "idle"}) <= 1
    /\ Cardinality({w \in Runs : autz[w].pc # "idle"}) <= 1

\* C30: no pooled connection is released with the transaction it began still
\* open: neither one of POST /integrations/invoice (holding the FOR UPDATE
\* lock of the ledger row) nor one of POST /auth/activar-ruc.
C30_Original ==
    /\ \A e \in Emisores : credLock[e] # "leaked"
    /\ \A a \in Acts : act[a].pc # "leaked"

C32_Original ==
    [][\A r \in Reqs :
          (inv[r].pc = "ins" /\ inv'[r].pc = "idle" /\ Len(invoices') = Len(invoices) + 1)
             => /\ llamada'.ret[1] = "201"
                /\ llamada'.ret[2] = balance'[inv[r].e]]_vars

\* C33: with the Submit job scheduled fairly, the invoice whose submission is
\* answered at every attempt leaves FIRMADO at some time, although the LIMIT
\* older FIRMADO invoices fail at every attempt.
C33_Original == <>(invoices[LIMIT + 1].estado # "FIRMADO")

\* a run goes on with the same row, or passes to the next row of its batch,
\* or ends after the last one
Continua(antes, despues) ==
    \/ despues.pc # "idle" /\ despues.rows = antes.rows
    \/ Len(antes.rows) > 1 /\ despues.pc = "lote" /\ despues.rows = Tail(antes.rows)
    \/ Len(antes.rows) = 1 /\ despues.pc = "idle"

C35_Original ==
    \A e \in Emisores : p12_path[e] # NULL => p12_path[e] \in certificates

RECURSIVE Debitado(_, _)
\* debits performed for the invoices 1..n of issuer e
Debitado(n, e) ==
    IF n = 0 THEN 0
    ELSE (IF n \in Ids /\ invoices[n].emisor = e THEN debitos[n] ELSE 0) + Debitado(n - 1, e)

\* C36: in every state reached by any interleaving of top-ups and runs of the
\* Authorize job, the balance of every issuer is its initial balance plus the
\* amounts of the committed top-ups minus the number of debits performed.
C36_SinPerdida ==
    \A e \in emisores :
        balance[e] = saldo_inicial[e] + Recargado(transaction_logs, e) - Debitado(Len(invoices), e)

\* A top-up has been committed and the invoice has been debited by both
\* executions of the Authorize job.
C36_Witness ==
    /\ Len(transaction_logs) = 1
    /\ transaction_logs[1] = <<"e1", 1>>
    /\ debitos[1] = 2

\* the endpoints of the environment that the value v of emisores.ambiente names
Entorno(a) == IF a.v = 2 THEN URLS_SRI.produccion ELSE URLS_SRI.pruebas

\* C37: both jobs call the production endpoints for an issuer whose ambiente
\* is 2 and the test endpoints for one whose ambiente is 1, and the status route
\* names the environment the jobs use.
C37_Original ==
    \A w \in Runs :
        /\ envio[w].url # "none" =>
              /\ envio[w].url = Entorno(emisores_ambiente["e1"]).recepcion
              /\ (llamada.fn = "GET /integrations/status" /\ llamada.ret = <<200, "PRUEBAS">>)
                    => envio[w].url = URLS_SRI.pruebas.recepcion
              /\ (llamada.fn = "GET /integrations/status" /\ llamada.ret = <<200, "PRODUCCION">>)
                    => envio[w].url = URLS_SRI.produccion.recepcion
        /\ autz[w].url # "none" =>
              /\ autz[w].url = Entorno(emisores_ambiente["e1"]).autorizacion
              /\ (llamada.fn = "GET /integrations/status" /\ llamada.ret = <<200, "PRUEBAS">>)
                    => autz[w].url = URLS_SRI.pruebas.autorizacion
              /\ (llamada.fn = "GET /integrations/status" /\ llamada.ret = <<200, "PRODUCCION">>)
                    => autz[w].url = URLS_SRI.produccion.autorizacion

\* the certificates of a bag list that are not CA certificates
NoCA(bags) == {i \in DOMAIN bags : bags[i].cert /\ ~bags[i].cA}

\* C38: either helper returns the first non-CA certificate whose keyUsage has
\* digitalSignature and nonRepudiation, else the first non-CA one with
\* digitalSignature, else the first non-CA one; it fails exactly when the list
\* has no non-CA certificate, and the two helpers choose the same certificate
\* for every bag list.
C38_Original ==
    (llamada.fn \in {"_seleccionarCertDeFirma", "seleccionarCertificadoDeFirma"}
        /\ llamada.fase \in {"return", "throw"}) =>
        LET bags == llamada.args[1]
            dsnr == {i \in NoCA(bags) : bags[i].keyUsage = "ds+nr"}
            ds   == {i \in NoCA(bags) : bags[i].keyUsage \in {"ds", "ds+nr"}}
            min(S) == CHOOSE i \in S : \A j \in S : i <= j
        IN  /\ (llamada.fase = "throw") <=> (NoCA(bags) = {})
            /\ llamada.fase = "return" =>
                  /\ llamada.ret.bag \in NoCA(bags)
                  /\ llamada.ret.bag = IF dsnr # {} THEN min(dsnr)
                                       ELSE IF ds # {} THEN min(ds) ELSE min(NoCA(bags))
            /\ seleccionarCertDeFirma(bags).bag = seleccionarCertificadoDeFirma(bags).bag

\* the key the pairing rule names for a list of key bags and the localKeyId of
\* the certificate chosen (0: it has none); 0 when the list is empty
LlaveEsperada(keyBags, id) ==
    LET porId     == {i \in DOMAIN keyBags : id # 0 /\ keyBags[i].localKeyId = id}
        porNombre == {i \in DOMAIN keyBags : keyBags[i].friendlyName \in {"Signing Key"}}
        min(S) == CHOOSE i \in S : \A j \in S : i <= j
    IN  IF Len(keyBags) = 0 THEN 0
        ELSE IF Len(keyBags) = 1 THEN 1
        ELSE IF porId # {} THEN min(porId)
        ELSE IF porNombre # {} THEN min(porNombre)
        ELSE Len(keyBags)

\* C39: the key is the only one when there is exactly one; else the first whose
\* localKeyId equals the chosen certificate's; else the first whose friendly
\* name contains 'signing key' in any case; else the last; the selection fails
\* when there is no key.  The key signInvoiceXmlCustom signs with is that key
\* of the container, whatever certBag and keyBag its caller passes.
C39_Llave ==
    /\ (llamada.fn = "_seleccionarLlaveDeFirma" /\ llamada.fase \in {"return", "throw"}) =>
          /\ (llamada.fase = "throw") <=> (Len(llamada.args[1]) = 0)
          /\ llamada.ret.bag = LlaveEsperada(llamada.args[1], llamada.args[2])
    /\ (llamada.fn = "signInvoiceXmlCustom" /\ llamada.fase \in {"return", "throw"}) =>
          LET p12c == llamada.args[3]
              cert == seleccionarCertDeFirma(p12c.certBags).bag
          IN  /\ (llamada.fase = "throw") <=> (cert = 0 \/ Len(p12c.keyBags) = 0)
              /\ llamada.fase = "return" =>
                    /\ llamada.ret.cert = cert
                    /\ llamada.ret.key = LlaveEsperada(p12c.keyBags, p12c.certBags[cert].localKeyId)

\* A signature was made with the key that carries the certificate's
\* localKeyId, the second of the container, while the caller passed the CA
\* certificate and the first key.
C39_Witness ==
    /\ llamada.fn = "signInvoiceXmlCustom"
    /\ llamada.fase = "return"
    /\ llamada.args[1] = 1 /\ llamada.args[2] = 1
    /\ llamada.args[3].certBags[1].cA
    /\ llamada.ret.cert = 2 /\ llamada.ret.key = 2
    /\ llamada.args[3].keyBags[2].localKeyId = llamada.args[3].certBags[2].localKeyId
    /\ llamada.args[3].keyBags[1].localKeyId = 0

\* C40: a DELETE /keys/:id of issuer E changes no row of another issuer; on the
\* id of another issuer's key it is answered 404 (500 when the query throws),
\* and that key is as valid for the middleware afterwards as it was before; a
\* GET /keys answered 200 lists exactly the caller's keys that are not revoked.
C40_LlaveAjena ==
    [][/\ (llamada.fn = "DELETE /keys/:id" /\ llamada.fase = "call" /\ llamada'.fase = "return")
            => LET e  == llamada.args[1]
                   id == llamada.args[2]
               IN  /\ Len(api_keys') = Len(api_keys)
                   /\ \A i \in 1..Len(api_keys) :
                          api_keys[i].emisor_id # e => api_keys'[i] = api_keys[i]
                   /\ (id \in 1..Len(api_keys) /\ api_keys[id].emisor_id # e)
                          => /\ llamada'.ret \in {<<"404">>, <<"500">>}
                             /\ api_keys' = api_keys
                             /\ \A k \in Llaves : Vigente(k) <=> Vigente(k)'
       /\ (llamada.fn = "GET /keys" /\ llamada.fase = "call" /\ llamada'.fase = "return"
              /\ llamada'.ret[1] = "200")
            => /\ {llamada'.ret[2][k] : k \in 1..Len(llamada'.ret[2])}
                    = {i \in 1..Len(api_keys) : /\ api_keys[i].emisor_id = llamada.args[1]
                                                /\ ~api_keys[i].revoked}
               /\ Len(llamada'.ret[2]) = Cardinality({llamada'.ret[2][k] : k \in 1..Len(llamada'.ret[2])})]_vars

\* Issuer e1 asked to delete a key of issuer e2 that was valid, was answered
\* 404, and the key is still not revoked.
C40_Witness ==
    /\ llamada.fn = "DELETE /keys/:id" /\ llamada.fase = "return"
    /\ llamada.ret = <<"404">>
    /\ llamada.args[1] = "e1"
    /\ llamada.args[2] \in 1..Len(api_keys)
    /\ api_keys[llamada.args[2]].emisor_id = "e2"
    /\ ~api_keys[llamada.args[2]].revoked

====
